---- MODULE Spec2Model ----
(***************************************************************************)
(* Model of the Animator engine of art0-8disks (src/js/animator.js, with   *)
(* its two sibling builds src/unnamed/part_004, the "premium" engine, and  *)
(* src/unnamed/part_001, the first engine without pause and reduced        *)
(* motion).                                                                *)
(*                                                                         *)
(* Time is counted in units of 50 ms: 1.7 s is 34, the 100 ms delta cap is *)
(* 2, the reduced-motion fades of 0.1 s and 0.15 s are 2 and 3.  Alpha     *)
(* values are exact rationals <<numerator, denominator>> in lowest terms. *)
(* The wall clock of the frame driver advances in steps of 1 / UnitSteps   *)
(* of a unit (10 ms); the frame interval of 1000 / 60 ms is a third of a    *)
(* unit.  The quality monitor of the premium build measures frame times in *)
(* refresh intervals of 1000 / 60 ms, of which a second has RefreshRate.   *)
(***************************************************************************)
EXTENDS Integers, Sequences, FiniteSets, TLC

VARIABLES
    variant,              \* which build of the engine runs: "base", "premium", "legacy"
    running,              \* this.running
    paused,               \* this.paused
    animationId,          \* this.animationId: TRUE when a frame callback is armed
    pending,              \* the frame callbacks requested and neither run nor cancelled
    sinceLastTime,        \* performance.now() - this.lastTime, in clock steps
    sinceLastFrame,       \* performance.now() - this.lastFrameTime, in clock steps
    fadeDuration,         \* this.fadeDuration
    holdDuration,         \* this.holdDuration
    prefersReducedMotion, \* this.prefersReducedMotion
    state,                \* this.state
    stateTime,            \* this.stateTime
    imagesByColor,        \* this.imagesByColor
    categories,           \* this.categories
    frameImage,           \* this.frameImage
    backgroundImage,      \* this.backgroundImage
    zones,                \* this.zones
    currentZoneIndex,     \* this.currentZoneIndex
    currentSet,           \* this.currentSet
    usedImages,           \* this.usedImages
    transitioningOut,     \* this.transitioningOut
    transitionAlpha,      \* this.transitionAlpha
    transitionTime,       \* this.transitionTime (premium build only)
    canvas,               \* the canvas: its geometry and the operations drawn on its bitmap
                          \* since the bitmap was last reset, when tracked
    quality,              \* the fps counter and the quality monitor: frameTimes, frameCount,
                          \* currentFps, fpsTime, qualityTier (premium build), when tracked
    bitmapCache,          \* window.imageLoader.bitmapCache: the handle cached for each source
    issued,               \* per source, how many handles were decoded for it so far
    closed,               \* the handles on which close() was called
    currentStyle,         \* the application's currentStyle
    loads,                \* the loadStyle() calls of the application: for each its position,
                          \* its preloadAll() job and its pending frame image
    lastCall,             \* observer: the last operation, its delta and the events it emitted
    picks,                \* observer: per category, the latest values returned by getRandomImage
    phaseTime,            \* observer: sum of the deltas handed to update() since the phase began
    wall,                 \* observer: clock steps since the last processed frame, start or resume
    hidden,               \* observer: clock steps of the pause since the last processed frame or start
    outTime               \* observer: sum of the deltas handed to update() since beginTransition()

sched == <<state, stateTime, currentZoneIndex, currentSet, zones, usedImages,
           transitioningOut, transitionAlpha, transitionTime>>
clock == <<sinceLastTime, sinceLastFrame>>
driver == <<running, paused, animationId, pending, clock>>
config == <<fadeDuration, holdDuration, prefersReducedMotion, imagesByColor,
            categories, frameImage, backgroundImage>>
loader == <<bitmapCache, issued, closed>>
app == <<currentStyle, loads>>
vars == <<variant, driver, config, sched, quality, canvas, loader, app, lastCall, picks, phaseTime,
          wall, hidden, outTime>>

----------------------------------------------------------------------------
(* Program constants, in units of 50 ms where they are times. *)

DefaultDuration == 34
MaxDeltaTime == 2
ReducedFadeBase == 2
ReducedFadePremium == 3
SetWrap == 1000
FramesPerUnit == 3
LimiterBase == 90
LimiterPremium == 85
RefreshRate == 60
WindowSize == 60
WindowMin == 30
DowngradeA == 55
DowngradeB == 45
DrawThreshold == 1000

(* Bounds of the exploration. *)

MaxElapsed == 3
MaxDuration == 2
MaxSet == 1
MaxStateTime == 6
MaxCycles == 5
UnitSteps == 5
MaxWall == 11
SlowFade == 5
MaxChecks == 3
MaxLoads == 2
BatchSize == 2

Null == "null"
Unobserved == 0 - 1
Variants == {"base", "premium", "legacy"}
Colors == {"pink", "green"}
Durations == 1..MaxDuration
Elapsed == 1..MaxElapsed

Min(a, b) == IF a <= b THEN a ELSE b

----------------------------------------------------------------------------
(* Exact rational arithmetic for the alpha values. *)

RECURSIVE GCD(_, _)
GCD(a, b) == IF b = 0 THEN a ELSE GCD(b, a % b)

Abs(n) == IF n < 0 THEN 0 - n ELSE n

(* the fraction p[1] / p[2], p[2] > 0, in lowest terms *)
Lowest(p) == LET g == GCD(Abs(p[1]), p[2]) IN
             IF p[1] < 0 THEN <<0 - (Abs(p[1]) \div g), p[2] \div g>>
             ELSE <<p[1] \div g, p[2] \div g>>

(* n / d; numerator and denominator are evaluated once, then reduced *)
Rat(n, d) == CHOOSE r \in {Lowest(p) : p \in {<<n, d>>}} : TRUE

Zero == <<0, 1>>
One  == <<1, 1>>

RatLess(a, b) == a[1] * b[2] < b[1] * a[2]
RatLeq(a, b)  == a[1] * b[2] <= b[1] * a[2]
RatAdd(a, b)  == Rat(a[1] * b[2] + b[1] * a[2], a[2] * b[2])
RatSub(a, b)  == Rat(a[1] * b[2] - b[1] * a[2], a[2] * b[2])
RatMul(a, b)  == Rat(a[1] * b[1], a[2] * b[2])

Cube(x) == x * x * x
Fifth(x) == x * x * x * x * x

(* Math.min(t / d, 1) for t >= 0, d > 0 *)
Progress(t, d) == IF t >= d THEN One ELSE Rat(t, d)

easeInOutCubic(t) ==
    IF 2 * t[1] < t[2]
    THEN Rat(4 * Cube(t[1]), Cube(t[2]))
    ELSE Rat(2 * Cube(t[2]) - Cube(2 * t[2] - 2 * t[1]), 2 * Cube(t[2]))

easeOut(t) == Rat(Cube(t[2]) - Cube(t[2] - t[1]), Cube(t[2]))

easeInOutSoft(t) ==
    IF 2 * t[1] < t[2]
    THEN Rat(16 * Fifth(t[1]), Fifth(t[2]))
    ELSE Rat(2 * Fifth(t[2]) - Fifth(2 * t[2] - 2 * t[1]), 2 * Fifth(t[2]))

easeZoneFade(t) ==
    LET adjusted == RatMul(t, RatSub(<<2, 1>>, t))
    IN  RatMul(RatMul(adjusted, adjusted),
               RatSub(<<3, 1>>, RatMul(<<2, 1>>, adjusted)))

----------------------------------------------------------------------------
(* The image cache (window.imageLoader) and the pools setImages receives. *)

Sources == {"p1", "p2", "p3", "p4", "g1", "g2", "gx"}

(* every source but gx has a decoded handle in the cache *)
Loaded == Sources \ {"gx"}

(* the background (intro) image and the frame overlay the application loads *)
IntroUrl == "bg"
FrameUrl == "fr"
Urls == Sources \cup {IntroUrl, FrameUrl}

(* the cache once the images of Loaded were preloaded: each handle is named *)
(* like its source                                                          *)
Preloaded == [u \in Urls |-> IF u \in Loaded THEN u ELSE Null]

(* the page at rest: the images preloaded, no loadStyle() called *)
AtRest ==
    /\ bitmapCache = Preloaded
    /\ issued = [u \in Urls |-> IF u \in Loaded THEN 1 ELSE 0]
    /\ closed = {}
    /\ currentStyle = Null
    /\ loads = <<>>

(* imageLoader.get(src): the cached handle or null *)
get(src) == bitmapCache[src]

Range(s) == {s[i] : i \in 1..Len(s)}

PoolA == [cats |-> <<"pink", "green">>,
          imgs |-> [c \in Colors |-> IF c = "pink" THEN {"p1", "p2"} ELSE {"g1"}]]

PoolB == [cats |-> <<"green", "pink">>,
          imgs |-> [c \in Colors |-> IF c = "green" THEN {"g1", "gx"} ELSE {}]]

PoolC == [cats |-> <<"pink", "green">>,
          imgs |-> [c \in Colors |-> IF c = "pink" THEN {"p1", "p2", "p3"} ELSE {"g1"}]]

PoolD == [cats |-> <<"pink">>,
          imgs |-> [c \in Colors |-> IF c = "pink" THEN {"p1", "p2", "p3", "p4"} ELSE {}]]

PoolE == [cats |-> <<"green", "pink">>,
          imgs |-> [c \in Colors |-> IF c = "pink" THEN {"p1", "p2"} ELSE {}]]

(* two categories of two loaded images each *)
PoolTwoEach == [cats |-> <<"pink", "green">>,
                imgs |-> [c \in Colors |-> IF c = "pink" THEN {"p1", "p2"} ELSE {"g1", "g2"}]]

EmptyZone == [current |-> Null, incoming |-> Null, alpha |-> Zero]

NoEvents == <<>>
(* what the observer notes of a call: the operation, the delta it was given, *)
(* the events it emitted, whether it called startZoneFade, whether it raised *)
Call(op, dt, events) ==
    [op |-> op, dt |-> dt, events |-> events, fadeStart |-> FALSE, threw |-> FALSE]
FadeCall(op, dt, events) ==
    [op |-> op, dt |-> dt, events |-> events, fadeStart |-> TRUE, threw |-> FALSE]
Thrown(op, dt) ==
    [op |-> op, dt |-> dt, events |-> NoEvents, fadeStart |-> FALSE, threw |-> TRUE]
StatusEvent(color, set) == [type |-> "status", color |-> color, set |-> set]
TransitionCompleteEvent == [type |-> "transitionComplete", color |-> Null, set |-> 0]

----------------------------------------------------------------------------
(* The canvas and render().  The canvas is watched where a specification    *)
(* follows what is drawn and is left out (Unwatched) elsewhere.              *)

Unwatched == [watched |-> FALSE, size |-> 0, ops |-> <<>>]

(* a canvas element of geometry size whose bitmap is blank *)
Blank(size) == [watched |-> TRUE, size |-> size, ops |-> <<>>]

(* ctx.clearRect over the whole canvas *)
ClearOp == [op |-> "clear", img |-> Null, opacity |-> Zero]

(* ctx.drawImage(img, ...) under ctx.globalAlpha = opacity *)
DrawOp(img, opacity) == [op |-> "draw", img |-> img, opacity |-> opacity]

(* alpha > 0.001 and alpha < 0.001, for an alpha that is not negative, by    *)
(* the quotient of its denominator by its numerator                          *)
AboveThreshold(alpha) == alpha[1] > 0 /\ alpha[2] \div alpha[1] < DrawThreshold

BelowThreshold(alpha) ==
    \/ alpha[1] = 0
    \/ alpha[2] \div alpha[1] > DrawThreshold
    \/ alpha[2] \div alpha[1] = DrawThreshold /\ alpha[2] % alpha[1] # 0

(* drawImage(img, alpha) while the transition alpha is ta: the legacy build *)
(* has no guard                                                              *)
drawImage(img, alpha, ta) ==
    IF variant # "legacy" /\ (img = Null \/ BelowThreshold(alpha)) THEN <<>>
    ELSE <<DrawOp(img, RatMul(alpha, ta))>>

(* zone.alpha > 0.001 (legacy build: zone.alpha > 0) *)
Visible(alpha) ==
    IF variant = "legacy" THEN RatLess(Zero, alpha) ELSE AboveThreshold(alpha)

(* render(): the loop over the categories, from position i on *)
RECURSIVE DrawZones(_, _, _, _)
DrawZones(cats, zs, ta, i) ==
    IF i > Len(cats) THEN <<>>
    ELSE LET zone == zs[cats[i]]
         IN  (IF zone.current # Null THEN drawImage(zone.current, One, ta) ELSE <<>>)
             \o (IF zone.incoming # Null /\ Visible(zone.alpha)
                 THEN drawImage(zone.incoming, zone.alpha, ta) ELSE <<>>)
             \o DrawZones(cats, zs, ta, i + 1)

(* render(): the operations it issues for the given engine fields *)
render(cats, zs, bg, fr, ta) ==
    <<ClearOp>>
    \o (IF bg # Null THEN drawImage(bg, One, ta) ELSE <<>>)
    \o DrawZones(cats, zs, ta, 1)
    \o (IF fr # Null THEN drawImage(fr, One, ta) ELSE <<>>)

(* what render() draws in the present state *)
Scene == render(categories, zones, backgroundImage, frameImage, transitionAlpha)

(* this.render() at the end of a step *)
Renders == canvas' = IF canvas.watched THEN [canvas EXCEPT !.ops = Scene'] ELSE canvas

----------------------------------------------------------------------------
(* The fps counter and the adaptive quality monitor of loop().  Frame times *)
(* are counted in refresh intervals.  The record is tracked where a          *)
(* specification follows it and is left out (Untracked) elsewhere.           *)

Tiers == {"A", "B", "C"}

Untracked ==
    [tracked |-> FALSE, qualityTier |-> "A", twinTier |-> "A", frameTimes |-> <<>>,
     frameCount |-> 0, currentFps |-> 0, sinceFpsTime |-> 0, notified |-> <<>>,
     checks |-> 0, pace |-> 0]

(* the monitor after construction: detectQualityTier() answered tier, and   *)
(* for a second engine, on another device, twin                              *)
Tracked(tier, twin) ==
    [Untracked EXCEPT !.tracked = TRUE, !.qualityTier = tier, !.twinTier = twin]

RECURSIVE Sum(_)
Sum(s) == IF s = <<>> THEN 0 ELSE Head(s) + Sum(Tail(s))

(* 1000 / avgFrameTime, for frame times in refresh intervals *)
EffectiveFps(times) == Rat(RefreshRate * Len(times), Sum(times))

(* a checkAdaptiveQuality that leaves the middle tier at the first threshold *)
checkAdaptiveQualityEager(tier, times) ==
    IF Len(times) < WindowMin THEN tier
    ELSE IF RatLess(EffectiveFps(times), <<DowngradeA, 1>>) /\ tier = "A" THEN "B"
    ELSE IF RatLess(EffectiveFps(times), <<DowngradeA, 1>>) /\ tier = "B" THEN "C"
    ELSE tier

(* checkAdaptiveQuality(): the tier after the check *)
checkAdaptiveQuality(tier, times) ==
    IF Len(times) < WindowMin THEN tier
    ELSE IF RatLess(EffectiveFps(times), <<DowngradeA, 1>>) /\ tier = "A" THEN "B"
    ELSE IF RatLess(EffectiveFps(times), <<DowngradeB, 1>>) /\ tier = "B" THEN "C"
    ELSE tier

(* onQualityChange(tier, effectiveFps) *)
QualityEvent(tier, fps) == [tier |-> tier, fps |-> fps]

(* the bookkeeping of a processed frame that came k refresh intervals after *)
(* the last one: frameTimes.push / shift, frameCount++, and once a second    *)
(* currentFps, fpsTime and (premium build) the quality check; the second     *)
(* engine runs the same check on the same frame times                        *)
QualityAfterFrame(q, k) ==
    LET pushed == Append(q.frameTimes, k)
        times == IF Len(pushed) > WindowSize THEN Tail(pushed) ELSE pushed
        since == q.sinceFpsTime + k
        due == since >= RefreshRate
        checked == due /\ variant = "premium"
        tier == IF checked THEN checkAdaptiveQuality(q.qualityTier, times)
                           ELSE q.qualityTier
        twin == IF checked THEN checkAdaptiveQuality(q.twinTier, times) ELSE q.twinTier
    IN  IF ~q.tracked THEN q
        ELSE [q EXCEPT !.frameTimes = times,
                       !.frameCount = IF due THEN 0 ELSE @ + 1,
                       !.currentFps = IF due THEN q.frameCount + 1 ELSE @,
                       !.sinceFpsTime = IF due THEN 0 ELSE since,
                       !.qualityTier = tier,
                       !.twinTier = twin,
                       !.notified = IF tier # q.qualityTier
                                    THEN Append(@, QualityEvent(tier, EffectiveFps(times)))
                                    ELSE @,
                       !.checks = IF due THEN @ + 1 ELSE @]

(* start(): this.fpsTime = this.lastTime; this.frameCount = 0 *)
QualityAtStart(q) ==
    IF ~q.tracked THEN q ELSE [q EXCEPT !.sinceFpsTime = 0, !.frameCount = 0]

----------------------------------------------------------------------------
(* Construction *)

(* new Animator(canvas) in build v; reduce is what the reduced-motion media *)
(* query answers at that moment (the legacy build does not ask)             *)
Construct(v, reduce) ==
    /\ variant = v
    /\ running = FALSE
    /\ paused = FALSE
    /\ animationId = FALSE
    /\ pending = 0
    /\ sinceLastTime = 0
    /\ sinceLastFrame = 0
    /\ fadeDuration = DefaultDuration
    /\ holdDuration = DefaultDuration
    /\ prefersReducedMotion = (reduce /\ v # "legacy")
    /\ state = "IDLE"
    /\ stateTime = 0
    /\ imagesByColor = [c \in Colors |-> {}]
    /\ categories = <<>>
    /\ frameImage = Null
    /\ backgroundImage = Null
    /\ zones = <<>>
    /\ currentZoneIndex = 0
    /\ currentSet = 0
    /\ usedImages = <<>>
    /\ transitioningOut = FALSE
    /\ transitionAlpha = One
    /\ transitionTime = 0
    /\ lastCall = Call("new", 0, NoEvents)
    /\ picks = [c \in Colors |-> <<>>]
    /\ wall = 0
    /\ hidden = 0

Init ==
    \E v \in Variants, reduce \in BOOLEAN :
        /\ Construct(v, reduce) /\ phaseTime = Unobserved /\ outTime = Unobserved
        /\ quality = Untracked
        /\ canvas = Unwatched
        /\ AtRest

----------------------------------------------------------------------------
(* Helpers of the scheduler *)

HasCategories == Len(categories) > 0

(* this.categories[i], undefined (Null) outside the list *)
CategoryAt(i) == IF i + 1 \in 1..Len(categories) THEN categories[i + 1] ELSE Null

(* const effectiveFadeDuration = this.prefersReducedMotion ? 0.1 : this.fadeDuration *)
EffectiveFade ==
    IF variant = "legacy" THEN fadeDuration
    ELSE IF prefersReducedMotion
         THEN (IF variant = "premium" THEN ReducedFadePremium ELSE ReducedFadeBase)
         ELSE fadeDuration

(* a curve that eases the fade whatever the reduced-motion preference *)
ZoneAlphaEased(p) ==
    IF variant = "premium" THEN easeZoneFade(p) ELSE easeInOutCubic(p)

(* the curve applied to the fade progress of the active zone *)
ZoneAlpha(p) ==
    IF variant = "legacy" THEN easeInOutCubic(p)
    ELSE IF prefersReducedMotion THEN p
    ELSE IF variant = "premium" THEN easeZoneFade(p)
    ELSE easeInOutCubic(p)

LastN(s, n) == IF Len(s) <= n THEN s ELSE SubSeq(s, Len(s) - n + 1, Len(s))

(* getRandomImage: the values Math.random may make it return *)
Candidates(color) ==
    IF color = Null \/ imagesByColor[color] = {} THEN {Null}
    ELSE LET available == imagesByColor[color] \ usedImages[color]
         IN  IF available = {} THEN imagesByColor[color] ELSE available

(* a getRandomImage that never clears the used set *)
UsedAfterKeeping(color, src) ==
    IF src = Null THEN usedImages
    ELSE [usedImages EXCEPT ![color] = @ \cup {src}]

(* a getRandomImage that forgets the used images of every category once it *)
(* has selected                                                              *)
UsedAfterForgettingOthers(color, src) ==
    IF src = Null THEN usedImages
    ELSE [c \in DOMAIN usedImages |-> IF c = color THEN {src} ELSE {}]

(* getRandomImage: the used sets after it returned src *)
UsedAfter(color, src) ==
    IF src = Null THEN usedImages
    ELSE [usedImages EXCEPT ![color] =
            (IF imagesByColor[color] \ @ = {} THEN {} ELSE @) \cup {src}]

PicksAfter(color, src) ==
    IF src = Null THEN picks
    ELSE [picks EXCEPT ![color] =
            LastN(Append(@, src), Cardinality(imagesByColor[color]))]

(* startZoneFade succeeded: an image was selected and its handle is cached *)
FadeStarts(src) == src # Null /\ get(src) # Null

(* a startZoneFade that removes the old image when the new one begins to fade *)
ZonesAfterStartFadeClearing(color, src) ==
    IF FadeStarts(src)
    THEN [zones EXCEPT ![color] = [current |-> Null, incoming |-> get(src), alpha |-> Zero]]
    ELSE zones

ZonesAfterStartFade(color, src) ==
    IF FadeStarts(src)
    THEN [zones EXCEPT ![color] = [@ EXCEPT !.incoming = get(src), !.alpha = Zero]]
    ELSE zones

(* a startZoneFade that reports the set counter as it is stored, from 0 *)
StartFadeEventsZeroBased(color, set, src) ==
    IF FadeStarts(src) THEN <<StatusEvent(color, set)>> ELSE NoEvents

StartFadeEvents(color, set, src) ==
    IF FadeStarts(src) THEN <<StatusEvent(color, set + 1)>> ELSE NoEvents

(* a completeZoneFade that leaves the alpha where the fade brought it *)
CompleteZoneFadeKeepingAlpha(zone) ==
    [current |-> zone.incoming, incoming |-> Null, alpha |-> zone.alpha]

(* a completeZoneFade that drops the incoming image without promoting it *)
CompleteZoneFadeDropping(zone) == [current |-> zone.current, incoming |-> Null, alpha |-> Zero]

(* completeZoneFade *)
CompleteZoneFade(zone) == [current |-> zone.incoming, incoming |-> Null, alpha |-> Zero]

(* an advanceToNextZone that wraps the cursor one position late *)
NextZoneIndexLate ==
    IF currentZoneIndex + 1 > Len(categories) THEN 0 ELSE currentZoneIndex + 1

(* advanceToNextZone *)
NextZoneIndex ==
    IF currentZoneIndex + 1 >= Len(categories) THEN 0 ELSE currentZoneIndex + 1

(* an advanceToNextZone that counts a cycle at every category *)
NextSetEveryZone == IF currentSet + 1 >= SetWrap THEN 0 ELSE currentSet + 1

NextSet ==
    IF currentZoneIndex + 1 >= Len(categories)
    THEN (IF currentSet + 1 >= SetWrap THEN 0 ELSE currentSet + 1)
    ELSE currentSet

FadeDone(t) == t >= EffectiveFade
HoldDone(t) == t >= holdDuration

(* a fade-out whose flag outlives the update in which the alpha reaches 0 *)
TransitionOutLingering(dt) ==
    IF variant = "premium"
    THEN LET tt == transitionTime + dt
             progress == Progress(tt, EffectiveFade)
             done == progress = One
         IN  [alpha |-> IF done THEN Zero ELSE RatSub(One, easeInOutSoft(progress)),
              done  |-> tt > EffectiveFade,
              time  |-> IF tt > EffectiveFade THEN 0 ELSE tt]
    ELSE LET a == RatSub(transitionAlpha, Rat(dt, EffectiveFade))
         IN  [alpha |-> IF RatLeq(a, Zero) THEN Zero ELSE a,
              done  |-> RatLess(a, Zero),
              time  |-> transitionTime]

(* the style transition of update(): fade-out while transitioningOut *)
TransitionOut(dt) ==
    IF variant = "premium"
    THEN LET tt == transitionTime + dt
             progress == Progress(tt, EffectiveFade)
             done == progress = One
         IN  [alpha |-> IF done THEN Zero ELSE RatSub(One, easeInOutSoft(progress)),
              done  |-> done,
              time  |-> IF done THEN 0 ELSE tt]
    ELSE LET a == RatSub(transitionAlpha, Rat(dt, EffectiveFade))
             done == RatLeq(a, Zero)
         IN  [alpha |-> IF done THEN Zero ELSE a,
              done  |-> done,
              time  |-> transitionTime]

(* a fade-in that adds the step without clamping the sum to 1 *)
TransitionInUnclamped(dt) ==
    IF ~RatLess(transitionAlpha, One)
    THEN [alpha |-> transitionAlpha, time |-> transitionTime]
    ELSE IF variant = "premium"
    THEN LET tt == transitionTime + dt
         IN  [alpha |-> easeOut(Rat(tt, EffectiveFade)), time |-> tt]
    ELSE [alpha |-> RatAdd(transitionAlpha, Rat(dt, EffectiveFade)),
          time  |-> transitionTime]

(* the style transition of update(): fade-in while transitionAlpha < 1 *)
TransitionIn(dt) ==
    IF ~RatLess(transitionAlpha, One)
    THEN [alpha |-> transitionAlpha, time |-> transitionTime]
    ELSE IF variant = "premium"
    THEN LET tt == transitionTime + dt
             progress == Progress(tt, EffectiveFade)
             done == progress = One
         IN  [alpha |-> IF done THEN One ELSE easeOut(progress),
              time  |-> IF done THEN 0 ELSE tt]
    ELSE LET a == RatAdd(transitionAlpha, Rat(dt, EffectiveFade))
         IN  [alpha |-> IF RatLess(One, a) THEN One ELSE a,
              time  |-> transitionTime]

(* the observer's clock of the phase, when it is attached (phaseTime >= 0): *)
(* it restarts when a phase begins and adds every delta handed to update()  *)
PhaseClock(dt) ==
    phaseTime' = IF phaseTime = Unobserved THEN Unobserved
                 ELSE IF state' # state THEN 0
                 ELSE Min(phaseTime + dt, MaxStateTime)

PhaseBegins ==
    phaseTime' = IF phaseTime = Unobserved THEN Unobserved ELSE 0

(* the observer's clock of the style transition, when it is attached: it    *)
(* restarts at beginTransition() and adds every delta handed to update()    *)
(* while the engine fades out                                               *)
OutClock(dt) ==
    outTime' = IF outTime = Unobserved \/ ~transitioningOut THEN outTime
               ELSE Min(outTime + dt, MaxStateTime)

----------------------------------------------------------------------------
(* update(deltaTime) *)

(* a FADING case that waits for an incoming image before it completes *)
UpdateFadingWaiting(op, dt) ==
    LET t == stateTime + dt
        color == CategoryAt(currentZoneIndex)
    IN  IF color = Null
        THEN /\ stateTime' = t
             /\ lastCall' = IF FadeDone(t) THEN Thrown(op, dt) ELSE Call(op, dt, NoEvents)
             /\ UNCHANGED <<state, zones, usedImages, currentZoneIndex, currentSet, picks>>
        ELSE LET zone == zones[color]
                 faded == IF zone.incoming # Null
                          THEN [zone EXCEPT !.alpha = ZoneAlpha(Progress(t, EffectiveFade))]
                          ELSE zone
             IN  /\ IF FadeDone(t) /\ zone.incoming # Null
                    THEN /\ zones' = [zones EXCEPT ![color] = CompleteZoneFade(faded)]
                         /\ state' = "HOLDING"
                         /\ stateTime' = 0
                    ELSE /\ zones' = [zones EXCEPT ![color] = faded]
                         /\ state' = state
                         /\ stateTime' = Min(t, MaxStateTime)
                 /\ lastCall' = Call(op, dt, NoEvents)
                 /\ UNCHANGED <<usedImages, currentZoneIndex, currentSet, picks>>

(* a FADING case that carries the time in excess of the fade into the hold *)
UpdateFadingCarrying(op, dt) ==
    LET t == stateTime + dt
        color == CategoryAt(currentZoneIndex)
    IN  IF color = Null
        THEN /\ stateTime' = t
             /\ lastCall' = IF FadeDone(t) THEN Thrown(op, dt) ELSE Call(op, dt, NoEvents)
             /\ UNCHANGED <<state, zones, usedImages, currentZoneIndex, currentSet, picks>>
        ELSE LET zone == zones[color]
                 faded == IF zone.incoming # Null
                          THEN [zone EXCEPT !.alpha = ZoneAlpha(Progress(t, EffectiveFade))]
                          ELSE zone
             IN  /\ IF FadeDone(t)
                    THEN /\ zones' = [zones EXCEPT ![color] = CompleteZoneFade(faded)]
                         /\ state' = "HOLDING"
                         /\ stateTime' = t - EffectiveFade
                    ELSE /\ zones' = [zones EXCEPT ![color] = faded]
                         /\ state' = state
                         /\ stateTime' = t
                 /\ lastCall' = Call(op, dt, NoEvents)
                 /\ UNCHANGED <<usedImages, currentZoneIndex, currentSet, picks>>

UpdateFading(op, dt) ==
    LET t == stateTime + dt
        color == CategoryAt(currentZoneIndex)
    IN  IF color = Null
        THEN \* zone is undefined: completeZoneFade raises a TypeError
             /\ stateTime' = t
             /\ lastCall' = IF FadeDone(t) THEN Thrown(op, dt) ELSE Call(op, dt, NoEvents)
             /\ UNCHANGED <<state, zones, usedImages, currentZoneIndex, currentSet, picks>>
        ELSE LET zone == zones[color]
                 faded == IF zone.incoming # Null
                          THEN [zone EXCEPT !.alpha = ZoneAlpha(Progress(t, EffectiveFade))]
                          ELSE zone
             IN  /\ IF FadeDone(t)
                    THEN /\ zones' = [zones EXCEPT ![color] = CompleteZoneFade(faded)]
                         /\ state' = "HOLDING"
                         /\ stateTime' = 0
                    ELSE /\ zones' = [zones EXCEPT ![color] = faded]
                         /\ state' = state
                         /\ stateTime' = t
                 /\ lastCall' = Call(op, dt, NoEvents)
                 /\ UNCHANGED <<usedImages, currentZoneIndex, currentSet, picks>>

(* an update() whose HOLDING case falls back to IDLE when the hold is over *)
UpdateHoldingToIdle(op, dt) ==
    LET t == stateTime + dt
    IN  IF HoldDone(t)
        THEN /\ currentZoneIndex' = NextZoneIndex
             /\ currentSet' = NextSet
             /\ state' = "IDLE"
             /\ stateTime' = 0
             /\ lastCall' = Call(op, dt, NoEvents)
             /\ UNCHANGED <<zones, usedImages, picks>>
        ELSE /\ stateTime' = t
             /\ lastCall' = Call(op, dt, NoEvents)
             /\ UNCHANGED <<state, zones, usedImages, currentZoneIndex, currentSet, picks>>

UpdateHolding(op, dt) ==
    LET t == stateTime + dt
    IN  IF HoldDone(t)
        THEN LET color == CategoryAt(NextZoneIndex)
             IN  \E src \in Candidates(color) :
                    /\ currentZoneIndex' = NextZoneIndex
                    /\ currentSet' = NextSet
                    /\ usedImages' = UsedAfter(color, src)
                    /\ picks' = PicksAfter(color, src)
                    /\ zones' = ZonesAfterStartFade(color, src)
                    /\ state' = "FADING"
                    /\ stateTime' = 0
                    /\ lastCall' = FadeCall(op, dt, StartFadeEvents(color, NextSet, src))
        ELSE /\ stateTime' = t
             /\ lastCall' = Call(op, dt, NoEvents)
             /\ UNCHANGED <<state, zones, usedImages, currentZoneIndex, currentSet, picks>>

(* no case of the switch: only stateTime moves; it is never read in IDLE and *)
(* is kept below MaxStateTime here                                           *)
UpdateIdle(op, dt) ==
    /\ stateTime' = Min(stateTime + dt, MaxStateTime)
    /\ lastCall' = Call(op, dt, NoEvents)
    /\ UNCHANGED <<state, zones, usedImages, currentZoneIndex, currentSet, picks>>

(* an update() whose phase clock keeps running during the fade-out *)
UpdateCountingThroughFadeOut(op, dt) ==
    /\ IF transitioningOut
       THEN LET out == TransitionOut(dt)
            IN  /\ transitionAlpha' = out.alpha
                /\ transitioningOut' = ~out.done
                /\ transitionTime' = out.time
                /\ lastCall' = Call(op, dt, IF out.done THEN <<TransitionCompleteEvent>>
                                                        ELSE NoEvents)
                /\ stateTime' = Min(stateTime + dt, MaxStateTime)
                /\ UNCHANGED <<state, zones, usedImages, currentZoneIndex,
                               currentSet, picks>>
       ELSE /\ transitionAlpha' = TransitionIn(dt).alpha
            /\ transitionTime' = TransitionIn(dt).time
            /\ UNCHANGED transitioningOut
            /\ CASE state = "FADING"  -> UpdateFading(op, dt)
                 [] state = "HOLDING" -> UpdateHolding(op, dt)
                 [] OTHER             -> UpdateIdle(op, dt)
    /\ PhaseClock(dt)
    /\ OutClock(dt)

Update(op, dt) ==
    /\ IF transitioningOut
       THEN LET out == TransitionOut(dt)
            IN  /\ transitionAlpha' = out.alpha
                /\ transitioningOut' = ~out.done
                /\ transitionTime' = out.time
                /\ lastCall' = Call(op, dt, IF out.done THEN <<TransitionCompleteEvent>>
                                                        ELSE NoEvents)
                /\ UNCHANGED <<state, stateTime, zones, usedImages, currentZoneIndex,
                               currentSet, picks>>
       ELSE /\ transitionAlpha' = TransitionIn(dt).alpha
            /\ transitionTime' = TransitionIn(dt).time
            /\ UNCHANGED transitioningOut
            /\ CASE state = "FADING"  -> UpdateFading(op, dt)
                 [] state = "HOLDING" -> UpdateHolding(op, dt)
                 [] OTHER             -> UpdateIdle(op, dt)
    /\ PhaseClock(dt)
    /\ OutClock(dt)

(* an update() that runs at a third of the pace at the lowest quality tier *)
UpdateAtTierThrottled(tier, op, dt) ==
    Update(op, IF tier = "C" THEN dt \div 3 ELSE dt)

(* update(deltaTime) on an engine whose quality tier is tier: no line of    *)
(* update() reads this.qualityTier                                           *)
UpdateAtTier(tier, op, dt) == Update(op, dt)

----------------------------------------------------------------------------
(* The public operations *)

(* reset(): the scheduler fields it assigns *)
ResetZones == [c \in DOMAIN zones |-> IF c \in Range(categories) THEN EmptyZone ELSE zones[c]]
ResetUsed  == [c \in DOMAIN usedImages |-> IF c \in Range(categories) THEN {} ELSE usedImages[c]]

(* a reset() that leaves the used sets as they are *)
ResetKeepingUsed ==
    /\ currentZoneIndex' = 0
    /\ currentSet' = 0
    /\ state' = "IDLE"
    /\ stateTime' = 0
    /\ transitioningOut' = FALSE
    /\ transitionAlpha' = One
    /\ zones' = ResetZones
    /\ lastCall' = Call("reset", 0, NoEvents)
    /\ picks' = [c \in Colors |-> <<>>]
    /\ PhaseBegins
    /\ UNCHANGED <<variant, loader, app, quality, canvas, driver, config, transitionTime, usedImages, wall, hidden, outTime>>

Reset ==
    /\ currentZoneIndex' = 0
    /\ currentSet' = 0
    /\ state' = "IDLE"
    /\ stateTime' = 0
    /\ transitioningOut' = FALSE
    /\ transitionAlpha' = One
    /\ usedImages' = ResetUsed
    /\ zones' = ResetZones
    /\ lastCall' = Call("reset", 0, NoEvents)
    /\ picks' = [c \in Colors |-> <<>>]
    /\ PhaseBegins
    /\ UNCHANGED <<variant, loader, app, quality, canvas, driver, config, transitionTime, wall, hidden, outTime>>

(* a setImages() that does not end with this.reset() *)
SetImagesWithoutReset(pool) ==
    /\ imagesByColor' = pool.imgs
    /\ categories' = pool.cats
    /\ usedImages' = [c \in Range(pool.cats) |-> {}]
    /\ zones' = [c \in Range(pool.cats) |-> EmptyZone]
    /\ lastCall' = Call("setImages", 0, NoEvents)
    /\ UNCHANGED <<variant, loader, app, quality, canvas, driver, fadeDuration, holdDuration, prefersReducedMotion,
                   frameImage, backgroundImage, transitionTime, wall, hidden, outTime,
                   currentZoneIndex, currentSet, state, stateTime, transitioningOut,
                   transitionAlpha, picks, phaseTime>>

SetImages(pool) ==
    /\ imagesByColor' = pool.imgs
    /\ categories' = pool.cats
    /\ usedImages' = [c \in Range(pool.cats) |-> {}]
    /\ zones' = [c \in Range(pool.cats) |-> EmptyZone]
    \* this.reset()
    /\ currentZoneIndex' = 0
    /\ currentSet' = 0
    /\ state' = "IDLE"
    /\ stateTime' = 0
    /\ transitioningOut' = FALSE
    /\ transitionAlpha' = One
    /\ lastCall' = Call("setImages", 0, NoEvents)
    /\ picks' = [c \in Colors |-> <<>>]
    /\ PhaseBegins
    /\ UNCHANGED <<variant, loader, app, quality, canvas, driver, fadeDuration, holdDuration, prefersReducedMotion,
                   frameImage, backgroundImage, transitionTime, wall, hidden, outTime>>

SetFrame(img) ==
    /\ frameImage' = img
    /\ lastCall' = Call("setFrame", 0, NoEvents)
    /\ UNCHANGED <<variant, loader, app, quality, canvas, driver, sched, picks, phaseTime, wall, hidden, outTime, fadeDuration, holdDuration,
                   prefersReducedMotion, imagesByColor, categories, backgroundImage>>

SetBackground(img) ==
    /\ backgroundImage' = img
    /\ lastCall' = Call("setBackground", 0, NoEvents)
    /\ UNCHANGED <<variant, loader, app, quality, canvas, driver, sched, picks, phaseTime, wall, hidden, outTime, fadeDuration, holdDuration,
                   prefersReducedMotion, imagesByColor, categories, frameImage>>

(* a fade slider that restarts the phase in progress *)
SetFadeDurationRestarting(v) ==
    /\ fadeDuration' = v
    /\ stateTime' = 0
    /\ lastCall' = Call("setFadeDuration", 0, NoEvents)
    /\ UNCHANGED <<variant, loader, app, quality, canvas, driver, picks, phaseTime, wall, hidden, outTime,
                   holdDuration, prefersReducedMotion, imagesByColor, categories,
                   frameImage, backgroundImage, state, currentZoneIndex, currentSet,
                   zones, usedImages, transitioningOut, transitionAlpha, transitionTime>>

(* the fade and hold sliders of the application *)
SetFadeDuration(v) ==
    /\ fadeDuration' = v
    /\ lastCall' = Call("setFadeDuration", 0, NoEvents)
    /\ UNCHANGED <<variant, loader, app, quality, canvas, driver, sched, picks, phaseTime, wall, hidden, outTime, holdDuration,
                   prefersReducedMotion, imagesByColor, categories, frameImage,
                   backgroundImage>>

SetHoldDuration(v) ==
    /\ holdDuration' = v
    /\ lastCall' = Call("setHoldDuration", 0, NoEvents)
    /\ UNCHANGED <<variant, loader, app, quality, canvas, driver, sched, picks, phaseTime, wall, hidden, outTime, fadeDuration,
                   prefersReducedMotion, imagesByColor, categories, frameImage,
                   backgroundImage>>

(* the change listener of the reduced-motion media query *)
SetReducedMotion(b) ==
    /\ variant # "legacy"
    /\ prefersReducedMotion' = b
    /\ lastCall' = Call("reducedMotion", 0, NoEvents)
    /\ UNCHANGED <<variant, loader, app, quality, canvas, driver, sched, picks, phaseTime, wall, hidden, outTime, fadeDuration, holdDuration,
                   imagesByColor, categories, frameImage, backgroundImage>>

(* start() on an engine that is not running: selects the first image and   *)
(* calls loop(), which arms the first frame callback (in the legacy build   *)
(* after an update of the zero time elapsed since start() read the clock)   *)
StartFresh ==
    LET color == CategoryAt(currentZoneIndex)
    IN  \E src \in Candidates(color) :
           /\ running' = TRUE
           /\ paused' = FALSE
           /\ usedImages' = UsedAfter(color, src)
           /\ picks' = PicksAfter(color, src)
           /\ zones' = ZonesAfterStartFade(color, src)
           /\ state' = "FADING"
           /\ stateTime' = 0
           /\ sinceLastTime' = 0
           /\ sinceLastFrame' = 0
           /\ animationId' = TRUE
           /\ pending' = pending + 1
           /\ lastCall' = FadeCall("start", 0, StartFadeEvents(color, currentSet, src))
           /\ PhaseBegins
           /\ wall' = 0
           /\ hidden' = 0
           /\ quality' = QualityAtStart(quality)
           /\ UNCHANGED <<variant, loader, app, config, currentZoneIndex, currentSet,
                          transitioningOut, transitionAlpha, transitionTime, outTime>>
           /\ IF variant = "legacy" THEN Renders ELSE UNCHANGED canvas

(* a start() that lacks the guard on this.running *)
StartUnguarded == StartFresh

(* start(): if (this.running) return *)
Start ==
    IF running
    THEN /\ lastCall' = Call("start", 0, NoEvents)
         /\ UNCHANGED <<variant, loader, app, quality, canvas, driver, config, sched, picks, phaseTime, wall, hidden, outTime>>
    ELSE StartFresh

(* cancelAnimationFrame(this.animationId): the callback the handle names is *)
(* withdrawn if it has not run yet                                          *)
Cancelled == IF animationId THEN pending - 1 ELSE pending

(* a stop() that also puts the state machine back to IDLE *)
StopToIdle ==
    /\ running' = FALSE
    /\ paused' = FALSE
    /\ animationId' = FALSE
    /\ pending' = Cancelled
    /\ UNCHANGED clock
    /\ state' = "IDLE"
    /\ stateTime' = 0
    /\ lastCall' = Call("stop", 0, NoEvents)
    /\ UNCHANGED <<variant, loader, app, quality, canvas, config, picks, phaseTime, wall, hidden, outTime, currentZoneIndex, currentSet, zones,
                   usedImages, transitioningOut, transitionAlpha, transitionTime>>

(* stop() *)
Stop ==
    /\ running' = FALSE
    /\ paused' = FALSE
    /\ animationId' = FALSE
    /\ pending' = Cancelled
    /\ lastCall' = Call("stop", 0, NoEvents)
    /\ UNCHANGED <<variant, loader, app, quality, canvas, config, sched, clock, picks, phaseTime, wall, hidden, outTime>>

Pause ==
    /\ variant # "legacy"
    /\ IF ~running
       THEN UNCHANGED <<driver, hidden>>
       ELSE /\ paused' = TRUE
            /\ animationId' = FALSE
            /\ pending' = Cancelled
            /\ hidden' = 0
            /\ UNCHANGED <<running, clock>>
    /\ lastCall' = Call("pause", 0, NoEvents)
    /\ UNCHANGED <<variant, loader, app, quality, canvas, config, sched, picks, phaseTime, wall, outTime>>

(* a resume() that keeps the clock baseline of before the pause *)
ResumeStale ==
    /\ variant # "legacy"
    /\ IF ~running \/ ~paused
       THEN UNCHANGED <<driver, wall>>
       ELSE /\ paused' = FALSE
            /\ animationId' = TRUE
            /\ pending' = pending + 1
            /\ wall' = 0
            /\ UNCHANGED <<running, clock>>
    /\ lastCall' = Call("resume", 0, NoEvents)
    /\ UNCHANGED <<variant, loader, app, quality, canvas, config, sched, picks, phaseTime, hidden, outTime>>

(* resume(): the baseline is sampled again and loop() arms a frame callback *)
(* (no time has passed since the baseline, so the limiter only re-arms)     *)
Resume ==
    /\ variant # "legacy"
    /\ IF ~running \/ ~paused
       THEN UNCHANGED <<driver, wall>>
       ELSE /\ paused' = FALSE
            /\ sinceLastTime' = 0
            /\ sinceLastFrame' = 0
            /\ animationId' = TRUE
            /\ pending' = pending + 1
            /\ wall' = 0
            /\ UNCHANGED running
    /\ lastCall' = Call("resume", 0, NoEvents)
    /\ UNCHANGED <<variant, loader, app, quality, canvas, config, sched, picks, phaseTime, hidden, outTime>>

BeginTransition ==
    /\ transitioningOut' = TRUE
    /\ transitionAlpha' = One
    /\ lastCall' = Call("beginTransition", 0, NoEvents)
    /\ outTime' = IF outTime = Unobserved THEN Unobserved ELSE 0
    /\ UNCHANGED <<variant, loader, app, quality, canvas, driver, config, picks, phaseTime, wall, hidden, state, stateTime,
                   currentZoneIndex, currentSet, zones, usedImages, transitionTime>>

(* resize(width, height, dpr): assigning canvas.width and canvas.height      *)
(* resets the bitmap; the base and premium builds then render only if the    *)
(* engine is running and not paused, the legacy build always                 *)
Resize(size) ==
    /\ canvas.watched
    /\ canvas' = IF variant = "legacy" \/ (running /\ ~paused)
                 THEN [Blank(size) EXCEPT !.ops = Scene]
                 ELSE Blank(size)
    /\ lastCall' = Call("resize", 0, NoEvents)
    /\ UNCHANGED <<variant, loader, app, quality, driver, config, sched, picks, phaseTime, wall, hidden,
                   outTime>>

(* a render() that draws the frame overlay before the zones *)
RenderFrameFirst ==
    /\ canvas.watched
    /\ canvas' = [canvas EXCEPT !.ops =
                    <<ClearOp>>
                    \o (IF backgroundImage # Null
                        THEN drawImage(backgroundImage, One, transitionAlpha) ELSE <<>>)
                    \o (IF frameImage # Null
                        THEN drawImage(frameImage, One, transitionAlpha) ELSE <<>>)
                    \o DrawZones(categories, zones, transitionAlpha, 1)]
    /\ lastCall' = Call("render", 0, NoEvents)
    /\ UNCHANGED <<variant, loader, app, quality, driver, config, sched, picks, phaseTime, wall, hidden,
                   outTime>>

(* render() called directly *)
Render ==
    /\ canvas.watched
    /\ canvas' = [canvas EXCEPT !.ops = Scene]
    /\ lastCall' = Call("render", 0, NoEvents)
    /\ UNCHANGED <<variant, loader, app, quality, driver, config, sched, picks, phaseTime, wall, hidden,
                   outTime>>

(* const deltaTime = Math.min((now - this.lastTime) / 1000, 0.1) *)
DeltaTime(elapsed) == IF variant = "legacy" THEN elapsed ELSE Min(elapsed, MaxDeltaTime)

(* loop(), run by the armed frame callback `elapsed` after the last one:    *)
(* update, render, and the next callback armed unless update raised         *)
Tick(elapsed) ==
    /\ animationId
    /\ running /\ ~paused
    /\ quality' = QualityAfterFrame(quality, FramesPerUnit * elapsed)
    /\ UpdateAtTier(quality'.qualityTier, "tick", DeltaTime(elapsed))
    /\ sinceLastTime' = 0
    /\ sinceLastFrame' = 0
    /\ animationId' = ~lastCall'.threw
    /\ pending' = IF lastCall'.threw THEN pending - 1 ELSE pending
    /\ wall' = 0
    /\ UNCHANGED <<variant, loader, app, running, paused, config, hidden>>
    /\ IF lastCall'.threw THEN UNCHANGED canvas ELSE Renders

(* three frames in a row, each one refresh interval after the last, on an   *)
(* engine whose stateTime and durations are whole units and whose style      *)
(* transition is at rest: their three updates of a third of a unit add up    *)
(* to the update of one unit                                                 *)
FastTicks ==
    /\ animationId
    /\ running /\ ~paused
    /\ ~transitioningOut /\ transitionAlpha = One
    /\ quality' = QualityAfterFrame(QualityAfterFrame(QualityAfterFrame(quality, 1), 1), 1)
    /\ UpdateAtTier(quality'.qualityTier, "tick", 1)
    /\ sinceLastTime' = 0
    /\ sinceLastFrame' = 0
    /\ animationId' = ~lastCall'.threw
    /\ pending' = IF lastCall'.threw THEN pending - 1 ELSE pending
    /\ wall' = 0
    /\ UNCHANGED <<variant, loader, app, running, paused, config, hidden>>
    /\ IF lastCall'.threw THEN UNCHANGED canvas ELSE Renders

(* the load of the device changes: of the frames of the coming second the   *)
(* first p come 50 ms apart, the others one refresh interval apart           *)
SetPace(p) ==
    /\ quality.tracked /\ quality.frameCount = 0
    /\ quality' = [quality EXCEPT !.pace = p]
    /\ lastCall' = Call("pace", 0, NoEvents)
    /\ UNCHANGED <<variant, loader, app, canvas, driver, config, sched, picks, phaseTime, wall, hidden,
                   outTime>>

(* update(deltaTime) called directly *)
UpdateCall(dt) ==
    /\ Update("update", dt)
    /\ UNCHANGED <<variant, loader, app, quality, canvas, driver, config, wall, hidden>>

----------------------------------------------------------------------------
(* The frame driver on the wall clock *)

(* elapsed < this.frameInterval * 0.9 (0.85 in the premium build), for an   *)
(* elapsed time of `steps` clock steps; the legacy build has no limiter     *)
Limited(steps) ==
    /\ variant # "legacy"
    /\ steps * FramesPerUnit * 100
          < UnitSteps * (IF variant = "premium" THEN LimiterPremium ELSE LimiterBase)

(* the delta of a frame at this moment is a whole number of units *)
Whole ==
    \/ sinceLastTime % UnitSteps = 0
    \/ variant # "legacy" /\ sinceLastTime >= MaxDeltaTime * UnitSteps

(* the wall clock advances by one step while the engine runs *)
Advance ==
    /\ running
    /\ wall < MaxWall /\ sinceLastTime < MaxWall
    /\ sinceLastTime' = sinceLastTime + 1
    /\ sinceLastFrame' = sinceLastFrame + 1
    /\ wall' = wall + 1
    /\ hidden' = IF paused THEN Min(hidden + 1, MaxWall) ELSE hidden
    /\ lastCall' = Call("wait", 0, NoEvents)
    /\ UNCHANGED <<variant, loader, app, quality, canvas, running, paused, animationId, pending, config, sched,
                   picks, phaseTime, outTime>>

(* loop() returns at its first line: the callback that ran is spent (the    *)
(* browser runs the callbacks in the order of their requests, so the one    *)
(* this.animationId names runs last)                                        *)
FrameReturns ==
    /\ pending' = pending - 1
    /\ animationId' = (animationId /\ pending > 1)
    /\ lastCall' = Call("return", 0, NoEvents)
    /\ UNCHANGED <<variant, loader, app, quality, canvas, running, paused, clock, config, sched, picks, phaseTime,
                   wall, hidden, outTime>>

(* a limiter branch that takes the moment of the skipped frame as baseline *)
FrameSkippedResampling ==
    /\ animationId' = TRUE
    /\ sinceLastTime' = 0
    /\ sinceLastFrame' = 0
    /\ lastCall' = Call("skip", 0, NoEvents)
    /\ UNCHANGED <<variant, loader, app, quality, canvas, running, paused, pending, config, sched, picks,
                   phaseTime, wall, hidden, outTime>>

(* loop() takes the limiter branch: it only requests the next callback *)
FrameSkipped ==
    /\ animationId' = TRUE
    /\ lastCall' = Call("skip", 0, NoEvents)
    /\ UNCHANGED <<variant, loader, app, quality, canvas, running, paused, pending, clock, config, sched, picks,
                   phaseTime, wall, hidden, outTime>>

(* loop() processes the frame: baseline, update, render, next callback     *)
(* requested unless update raised                                           *)
FrameProcessed(op) ==
    /\ Whole
    /\ ~quality.tracked
    /\ Update(op, DeltaTime(sinceLastTime \div UnitSteps))
    /\ sinceLastTime' = 0
    /\ sinceLastFrame' = 0
    /\ animationId' = IF lastCall'.threw THEN animationId /\ pending > 1 ELSE TRUE
    /\ pending' = IF lastCall'.threw THEN pending - 1 ELSE pending
    /\ wall' = 0
    /\ hidden' = 0
    /\ UNCHANGED <<variant, loader, app, quality, config>>
    /\ IF lastCall'.threw THEN UNCHANGED canvas ELSE Renders

(* loop(), run by a pending frame callback at the present moment *)
Frame ==
    /\ pending > 0
    /\ IF ~running \/ paused THEN FrameReturns
       ELSE IF Limited(sinceLastFrame) THEN FrameSkipped
       ELSE FrameProcessed("tick") /\ UNCHANGED <<running, paused>>

(* loop() processes a frame in which update() emits an event, and the      *)
(* observer of that event calls stop(): stop() clears running and paused    *)
(* and cancels the callback this.animationId names, if it is still pending; *)
(* update() and loop() then run to their end, and loop() requests the next  *)
(* callback                                                                 *)
FrameStopping ==
    /\ pending > 0
    /\ running /\ ~paused
    /\ ~Limited(sinceLastFrame)
    /\ Whole
    /\ ~quality.tracked
    /\ Update("tickStop", DeltaTime(sinceLastTime \div UnitSteps))
    /\ lastCall'.events # NoEvents
    /\ running' = FALSE
    /\ paused' = FALSE
    /\ sinceLastTime' = 0
    /\ sinceLastFrame' = 0
    /\ animationId' = TRUE
    /\ pending' = IF animationId /\ pending > 1 THEN pending - 1 ELSE pending
    /\ wall' = 0
    /\ hidden' = 0
    /\ UNCHANGED <<variant, loader, app, quality, config>>
    /\ IF lastCall'.threw THEN UNCHANGED canvas ELSE Renders

----------------------------------------------------------------------------
(* The image cache (src/js/imageLoader.js) and loadStyle() of the           *)
(* applications (src/js/app.js with the base engine, src/unnamed/part_003   *)
(* with the premium engine).  The bitmap cache and the image cache of the   *)
(* loader are one map here.  A handle is named after its source and the     *)
(* number of handles decoded for that source before it.  Every await of     *)
(* loadStyle() is a position of the call; a call whose awaited promise has  *)
(* settled continues before any other event is handled.                     *)

Styles == {"x", "y"}

(* config.styleImages[style][resolution], category by category in the order *)
(* of config.categories                                                     *)
StyleCategories == <<"pink", "green">>
StyleImages(style) ==
    [c \in Colors |-> IF style = "x" THEN (IF c = "pink" THEN <<"p1">> ELSE <<"g1">>)
                      ELSE (IF c = "pink" THEN <<"p2">> ELSE <<"g2">>)]

RECURSIVE Flatten(_, _, _)
Flatten(cats, lists, i) ==
    IF i > Len(cats) THEN <<>> ELSE lists[cats[i]] \o Flatten(cats, lists, i + 1)

(* allImages of loadStyle(): the images of every category, then the intro *)
AllImages(style) == Flatten(StyleCategories, StyleImages(style), 1) \o <<IntroUrl>>

(* the arguments of animator.setImages(imagesByColor, config.categories) *)
StylePool(style) ==
    [cats |-> StyleCategories,
     imgs |-> [c \in Colors |-> Range(StyleImages(style)[c])]]

RECURSIVE Handle(_, _)
Handle(src, n) == IF n = 0 THEN src ELSE Handle(src, n - 1) \o "+"

EmptyCache == [u \in Urls |-> Null]

(* createImageBitmap (or the decoded Image): a new handle for src *)
Decoded(src) == Handle(src, issued[src])

(* clear(): every cached bitmap is closed and the cache emptied *)
ClosedByClear == closed \cup {bitmapCache[u] : u \in {v \in Urls : bitmapCache[v] # Null}}

(* the positions of a loadStyle() call whose awaited promise has settled *)
Resumable == {"preloaded", "framed"}

(* a continuation is queued: it runs before any event or frame callback *)
Queued == \E i \in 1..Len(loads) : loads[i].pc \in Resumable

(* loaded++ and onProgress(loaded, total), k times *)
RECURSIVE Counted(_, _)
Counted(job, k) ==
    IF k = 0 THEN job
    ELSE Counted([job EXCEPT !.loaded = @ + 1, !.progress = Append(@, job.loaded + 1)], k - 1)

Hits(list, cache) == Cardinality({i \in 1..Len(list) : cache[list[i]] # Null})

(* preloadAll: the next batch of toLoad; loadImage answers at once for the  *)
(* sources cached by now and starts a load for each of the others           *)
StartBatch(job, cache) ==
    LET n == Min(BatchSize, Len(job.toLoad))
        batch == SubSeq(job.toLoad, 1, n)
        started == [Counted(job, Hits(batch, cache)) EXCEPT
                       !.toLoad = SubSeq(job.toLoad, n + 1, Len(job.toLoad)),
                       !.inflight = {batch[i] : i \in {j \in 1..n : cache[batch[j]] = Null}}]
    IN  started

(* preloadAll once Promise.all of a batch has settled.  The loader of the   *)
(* premium application waits for a timer after every batch; the CDN loader  *)
(* of the base application goes on with the next batch or returns.          *)
RECURSIVE AfterBatch(_, _)
AfterBatch(job, cache) ==
    IF job.inflight # {} THEN [job EXCEPT !.pc = "preload"]
    ELSE IF variant = "premium" THEN [job EXCEPT !.pc = "yield"]
    ELSE IF job.toLoad = <<>> THEN [job EXCEPT !.pc = "preloaded"]
    ELSE AfterBatch(StartBatch(job, cache), cache)

(* preloadAll(sources, onProgress) up to its first await *)
preloadAll(style, sources, cache) ==
    LET hits == Hits(sources, cache)
        job == [style |-> style, pc |-> "preload",
                toLoad |-> SelectSeq(sources, LAMBDA u : cache[u] = Null),
                inflight |-> {},
                loaded |-> hits, total |-> Len(sources),
                progress |-> IF hits > 0 THEN <<hits>> ELSE <<>>,
                results |-> {u \in Range(sources) : cache[u] # Null},
                frame |-> Null]
    IN  IF job.toLoad = <<>> THEN [job EXCEPT !.pc = "preloaded"]
        ELSE AfterBatch(StartBatch(job, cache), cache)

(* loadStyle(styleName): stop(), reset(), in the premium application        *)
(* clear() when the style changes, then preloadAll up to its first await    *)
LoadStyle(style) ==
    LET clearing == variant = "premium" /\ currentStyle # Null /\ currentStyle # style
        cache == IF clearing THEN EmptyCache ELSE bitmapCache
    IN  /\ Len(loads) < MaxLoads
        /\ running' = FALSE
        /\ paused' = FALSE
        /\ animationId' = FALSE
        /\ pending' = Cancelled
        /\ currentZoneIndex' = 0
        /\ currentSet' = 0
        /\ state' = "IDLE"
        /\ stateTime' = 0
        /\ transitioningOut' = FALSE
        /\ transitionAlpha' = One
        /\ usedImages' = ResetUsed
        /\ zones' = ResetZones
        /\ picks' = [c \in Colors |-> <<>>]
        /\ PhaseBegins
        /\ bitmapCache' = cache
        /\ closed' = IF clearing THEN ClosedByClear ELSE closed
        /\ currentStyle' = style
        /\ loads' = Append(loads, preloadAll(style, AllImages(style), cache))
        /\ lastCall' = Call("loadStyle", 0, NoEvents)
        /\ UNCHANGED <<variant, quality, canvas, issued, clock, config, transitionTime, wall,
                       hidden, outTime>>

(* a preloadAll without the try around loadImage: a failed load rejects     *)
(* the promise of the batch and with it preloadAll                          *)
SettledUncaught(job, src, ok) ==
    IF ok
    THEN Counted([job EXCEPT !.inflight = @ \ {src}, !.results = @ \cup {src}], 1)
    ELSE [job EXCEPT !.inflight = @ \ {src}, !.pc = "rejected"]

(* the callback preloadAll maps over a batch, after its `await loadImage`:  *)
(* results.set(src, img) unless the load failed, then loaded++ and          *)
(* onProgress in either case                                                *)
Settled(job, src, ok) ==
    Counted([job EXCEPT !.inflight = @ \ {src},
                        !.results = IF ok THEN @ \cup {src} ELSE @], 1)

(* one load of a batch of call i settles: decoded and cached, or failed *)
LoadImageSettles(i, src, ok) ==
    /\ i \in 1..Len(loads)
    /\ loads[i].pc = "preload" /\ src \in loads[i].inflight
    /\ bitmapCache' = IF ok THEN [bitmapCache EXCEPT ![src] = Decoded(src)] ELSE bitmapCache
    /\ issued' = IF ok THEN [issued EXCEPT ![src] = @ + 1] ELSE issued
    /\ loads' = [loads EXCEPT ![i] =
                    LET job == Settled(@, src, ok)
                    IN  IF job.pc = "preload" THEN AfterBatch(job, bitmapCache') ELSE job]
    /\ lastCall' = Call("loadImage", 0, NoEvents)
    /\ UNCHANGED <<variant, quality, canvas, closed, currentStyle, driver, config, sched, picks,
                   phaseTime, wall, hidden, outTime>>

(* a call of preloadAll(sources, onProgress) by itself *)
PreloadCall(sources) ==
    /\ Len(loads) < MaxLoads
    /\ loads' = Append(loads, preloadAll(Null, sources, bitmapCache))
    /\ lastCall' = Call("preloadAll", 0, NoEvents)
    /\ UNCHANGED <<variant, quality, canvas, loader, currentStyle, driver, config, sched, picks,
                   phaseTime, wall, hidden, outTime>>

(* the timer preloadAll awaits after a batch fires *)
BatchYield(i) ==
    /\ i \in 1..Len(loads)
    /\ loads[i].pc = "yield"
    /\ loads' = [loads EXCEPT ![i] =
                    IF @.toLoad = <<>> THEN [@ EXCEPT !.pc = "preloaded"]
                    ELSE LET job == StartBatch(@, bitmapCache)
                         IN  IF job.inflight # {} THEN [job EXCEPT !.pc = "preload"]
                             ELSE [job EXCEPT !.pc = "yield"]]
    /\ lastCall' = Call("timer", 0, NoEvents)
    /\ UNCHANGED <<variant, quality, canvas, loader, currentStyle, driver, config, sched, picks,
                   phaseTime, wall, hidden, outTime>>

(* loadStyle() after `await preloadAll`: setBackground(get(introUrl)),      *)
(* setImages(imagesByColor, categories), then updateFrame() up to its await *)
LoadStyleAfterPreload(i) ==
    LET pool == StylePool(loads[i].style)
    IN  /\ i \in 1..Len(loads)
        /\ loads[i].pc = "preloaded" /\ loads[i].style # Null
        /\ backgroundImage' = get(IntroUrl)
        /\ imagesByColor' = pool.imgs
        /\ categories' = pool.cats
        /\ usedImages' = [c \in Range(pool.cats) |-> {}]
        /\ zones' = [c \in Range(pool.cats) |-> EmptyZone]
        /\ currentZoneIndex' = 0
        /\ currentSet' = 0
        /\ state' = "IDLE"
        /\ stateTime' = 0
        /\ transitioningOut' = FALSE
        /\ transitionAlpha' = One
        /\ picks' = [c \in Colors |-> <<>>]
        /\ PhaseBegins
        /\ loads' = [loads EXCEPT ![i] =
                        IF get(FrameUrl) # Null
                        THEN [@ EXCEPT !.pc = "framed", !.frame = get(FrameUrl)]
                        ELSE [@ EXCEPT !.pc = "frame"]]
        /\ lastCall' = Call("setImages", 0, NoEvents)
        /\ UNCHANGED <<variant, quality, canvas, loader, currentStyle, driver, fadeDuration,
                       holdDuration, prefersReducedMotion, frameImage, transitionTime, wall,
                       hidden, outTime>>

(* the loadImage(frameUrl) of updateFrame() settles *)
UpdateFrameSettles(i, ok) ==
    /\ i \in 1..Len(loads)
    /\ loads[i].pc = "frame"
    /\ bitmapCache' = IF ok THEN [bitmapCache EXCEPT ![FrameUrl] = Decoded(FrameUrl)]
                      ELSE bitmapCache
    /\ issued' = IF ok THEN [issued EXCEPT ![FrameUrl] = @ + 1] ELSE issued
    /\ loads' = [loads EXCEPT ![i] =
                    [@ EXCEPT !.pc = "framed",
                              !.frame = IF ok THEN Decoded(FrameUrl) ELSE Null]]
    /\ lastCall' = Call("loadImage", 0, NoEvents)
    /\ UNCHANGED <<variant, quality, canvas, closed, currentStyle, driver, config, sched, picks,
                   phaseTime, wall, hidden, outTime>>

(* updateFrame() after its await, setFrame(img), and loadStyle() after      *)
(* `await updateFrame()`: start()                                           *)
LoadStyleAfterFrame(i) ==
    LET color == CategoryAt(currentZoneIndex)
    IN  /\ i \in 1..Len(loads)
        /\ loads[i].pc = "framed"
        /\ frameImage' = loads[i].frame
        /\ loads' = [loads EXCEPT ![i] = [@ EXCEPT !.pc = "done", !.frame = Null]]
        /\ IF running
           THEN /\ lastCall' = Call("start", 0, NoEvents)
                /\ UNCHANGED <<driver, sched, picks, phaseTime, wall, hidden, quality>>
           ELSE \E src \in Candidates(color) :
                   /\ running' = TRUE
                   /\ paused' = FALSE
                   /\ usedImages' = UsedAfter(color, src)
                   /\ picks' = PicksAfter(color, src)
                   /\ zones' = ZonesAfterStartFade(color, src)
                   /\ state' = "FADING"
                   /\ stateTime' = 0
                   /\ sinceLastTime' = 0
                   /\ sinceLastFrame' = 0
                   /\ animationId' = TRUE
                   /\ pending' = pending + 1
                   /\ lastCall' = FadeCall("start", 0, StartFadeEvents(color, currentSet, src))
                   /\ PhaseBegins
                   /\ wall' = 0
                   /\ hidden' = 0
                   /\ quality' = QualityAtStart(quality)
                   /\ UNCHANGED <<currentZoneIndex, currentSet, transitioningOut,
                                  transitionAlpha, transitionTime>>
        /\ UNCHANGED <<variant, canvas, loader, currentStyle, fadeDuration, holdDuration,
                       prefersReducedMotion, imagesByColor, categories, backgroundImage,
                       outTime>>

(* bitmap.close() was called on the handle *)
Closed(h) == h \in closed

(* the images the engine holds *)
Held ==
    ({backgroundImage, frameImage}
       \cup {zones[c].current : c \in DOMAIN zones}
       \cup {zones[c].incoming : c \in DOMAIN zones}) \ {Null}

(* ctx.drawImage raises InvalidStateError for a closed bitmap: render()     *)
(* stops at the first one                                                   *)
RECURSIVE UpToRaise(_)
UpToRaise(ops) ==
    IF ops = <<>> \/ (Head(ops).op = "draw" /\ Closed(Head(ops).img)) THEN <<>>
    ELSE <<Head(ops)>> \o UpToRaise(Tail(ops))

Raises(ops) == \E k \in 1..Len(ops) : ops[k].op = "draw" /\ Closed(ops[k].img)

(* loop() whose render() raises: update() ran, the canvas keeps what was    *)
(* drawn before the closed bitmap, and no further callback is requested     *)
TickRaising(elapsed) ==
    /\ animationId
    /\ running /\ ~paused
    /\ quality' = QualityAfterFrame(quality, FramesPerUnit * elapsed)
    /\ UpdateAtTier(quality'.qualityTier, "tick", DeltaTime(elapsed))
    /\ sinceLastTime' = 0
    /\ sinceLastFrame' = 0
    /\ animationId' = FALSE
    /\ pending' = pending - 1
    /\ wall' = 0
    /\ UNCHANGED <<variant, loader, app, running, paused, config, hidden>>
    /\ ~lastCall'.threw
    /\ Raises(Scene')
    /\ canvas' = [canvas EXCEPT !.ops = UpToRaise(Scene')]

----------------------------------------------------------------------------
(* Specifications *)

Pools == {PoolA, PoolB}

(* the exploration follows ticks once both sliders were set, up to MaxSet    *)
(* sets, and as long as stateTime stays below MaxStateTime                   *)
Explorable == fadeDuration <= MaxDuration /\ holdDuration <= MaxDuration
Within == currentSet' <= MaxSet /\ stateTime' <= MaxStateTime
Unstarted == ~running /\ state = "IDLE"

Updates == {"tick", "update"}
Images == {Null, "img"}
engine == <<variant, driver, config, sched>>

(* Spec: the engine driven by the frame callback, with every operation of   *)
(* the application but the frame and background images                       *)
Next ==
    \/ \E pool \in Pools : SetImages(pool)
    \/ Reset
    \/ Start
    \/ Stop
    \/ Pause
    \/ Resume
    \/ BeginTransition
    \/ \E v \in Durations : Unstarted /\ SetFadeDuration(v)
    \/ \E v \in Durations : Unstarted /\ SetHoldDuration(v)
    \/ \E e \in Elapsed : Explorable /\ Tick(e) /\ Within

Spec == Init /\ [][Next]_vars

(* An engine set up with setImages and the sliders, then driven only by     *)
(* start(), by frames and by direct calls of update(dt), dt >= 0.           *)
Deltas == 0..MaxElapsed

CycleNext ==
    \/ \E pool \in Pools : Unstarted /\ SetImages(pool)
    \/ \E v \in Durations : Unstarted /\ SetFadeDuration(v)
    \/ \E v \in Durations : Unstarted /\ SetHoldDuration(v)
    \/ \E b \in BOOLEAN : Unstarted /\ SetReducedMotion(b)
    \/ HasCategories /\ Explorable /\ Start
    \/ \E e \in Elapsed : HasCategories /\ Explorable /\ Tick(e) /\ Within
    \/ \E dt \in Deltas : HasCategories /\ Explorable /\ UpdateCall(dt) /\ Within

CycleSpec == Init /\ [][CycleNext]_vars

(* The cursor over many cycles: the engine as the application drives it,    *)
(* and, with the two-category pool and the shortest durations, frames       *)
(* running on past MaxSet cycles up to the wrap of the cycle counter.        *)
LongRun ==
    /\ categories = PoolA.cats /\ imagesByColor = PoolA.imgs
    /\ fadeDuration = 1 /\ holdDuration = 1
    /\ ~prefersReducedMotion /\ ~transitioningOut
    /\ Tick(1)

CursorNext ==
    \/ \E pool \in Pools : Unstarted /\ SetImages(pool)
    \/ \E v \in Durations : Unstarted /\ SetFadeDuration(v)
    \/ \E v \in Durations : Unstarted /\ SetHoldDuration(v)
    \/ Explorable /\ Start
    \/ Stop
    \/ Reset
    \/ \E e \in Elapsed : Explorable /\ Tick(e) /\ Within
    \/ \E dt \in Deltas : Explorable /\ UpdateCall(dt) /\ Within
    \/ LongRun

CursorSpec == Init /\ [][CursorNext]_vars

(* Image selection: pools of one to four images per category; selections   *)
(* are made by start() and by the frames that end a hold, and with the       *)
(* four-image single-category pool the frames run on for MaxCycles cycles.   *)
SelectPools == {PoolA, PoolC, PoolD}

SelectRun ==
    /\ categories = PoolD.cats /\ imagesByColor = PoolD.imgs
    /\ fadeDuration = 1 /\ holdDuration = 1
    /\ ~transitioningOut
    /\ Tick(1)
    /\ currentSet' <= MaxCycles

SelectNext ==
    \/ \E pool \in SelectPools : Unstarted /\ SetImages(pool)
    \/ \E v \in Durations : Unstarted /\ SetFadeDuration(v)
    \/ \E v \in Durations : Unstarted /\ SetHoldDuration(v)
    \/ HasCategories /\ Explorable /\ Start
    \/ Stop
    \/ Reset
    \/ \E e \in Elapsed : Explorable /\ Tick(e) /\ Within
    \/ SelectRun

SelectSpec == Init /\ [][SelectNext]_vars

(* Phase timing: the engine with durations that stay constant while it      *)
(* cycles, reduced motion off, no style transition; an observer adds up the  *)
(* deltas handed to update() since the phase began.                          *)
TimingInit ==
    \E v \in Variants :
        /\ Construct(v, FALSE) /\ phaseTime = 0 /\ outTime = Unobserved
        /\ quality = Untracked
        /\ canvas = Unwatched
        /\ AtRest

TimingNext ==
    \/ \E pool \in Pools : Unstarted /\ SetImages(pool)
    \/ \E v \in Durations : Unstarted /\ SetFadeDuration(v)
    \/ \E v \in Durations : Unstarted /\ SetHoldDuration(v)
    \/ Explorable /\ Start
    \/ Stop
    \/ Pause
    \/ Resume
    \/ \E e \in Elapsed : Explorable /\ Tick(e) /\ Within
    \/ \E dt \in Deltas : Explorable /\ UpdateCall(dt) /\ Within

TimingSpec == TimingInit /\ [][TimingNext]_vars

(* Alpha values: style transitions, the fade slider and the reduced-motion  *)
(* preference changing at any time, and updates with any delta from 0 up to *)
(* MaxElapsed, by frames (capped except in the legacy build) or directly.   *)
AlphaNext ==
    \/ \E pool \in Pools : Unstarted /\ SetImages(pool)
    \/ \E v \in Durations : SetFadeDuration(v)
    \/ \E v \in Durations : Unstarted /\ SetHoldDuration(v)
    \/ \E b \in BOOLEAN : SetReducedMotion(b)
    \/ Explorable /\ Start
    \/ Reset
    \/ BeginTransition
    \/ \E e \in Elapsed : Explorable /\ Tick(e) /\ Within
    \/ \E dt \in Deltas : Explorable /\ UpdateCall(dt) /\ Within

AlphaSpec == Init /\ [][AlphaNext]_vars

(* The running engine under a fair frame scheduler: while the engine runs   *)
(* and the page is visible the browser keeps delivering animation frames.   *)
LiveTick == \E e \in Elapsed : Explorable /\ Tick(e) /\ Within

LiveNext ==
    \/ \E pool \in Pools : SetImages(pool)
    \/ Reset
    \/ \E img \in Images : SetFrame(img)
    \/ \E v \in Durations : SetFadeDuration(v)
    \/ \E v \in Durations : SetHoldDuration(v)
    \/ HasCategories /\ Explorable /\ Start
    \/ Stop
    \/ LiveTick

LiveSpec == Init /\ [][LiveNext]_vars /\ WF_vars(LiveTick)

(* The engine with its frame and background images, as the application     *)
(* drives it around reset(): reset() is called in any state of the cycle,    *)
(* on a running and on a stopped engine.                                     *)

ResetNext ==
    \/ \E pool \in Pools : SetImages(pool)
    \/ \E img \in Images : SetFrame(img)
    \/ \E img \in Images : SetBackground(img)
    \/ Reset
    \/ Start
    \/ Stop
    \/ \E v \in Durations : Unstarted /\ SetFadeDuration(v)
    \/ \E v \in Durations : Unstarted /\ SetHoldDuration(v)
    \/ \E e \in Elapsed : Explorable /\ Tick(e) /\ Within

ResetSpec == Init /\ [][ResetNext]_vars

(* A pool in which one category has no image: the engine with the phase    *)
(* observer attached, constant durations, reduced motion off and no style    *)
(* transition, driven by frames and by direct updates.                       *)
StallPools == {PoolA, PoolE}

StallNext ==
    \/ \E pool \in StallPools : Unstarted /\ SetImages(pool)
    \/ \E v \in Durations : Unstarted /\ SetFadeDuration(v)
    \/ \E v \in Durations : Unstarted /\ SetHoldDuration(v)
    \/ HasCategories /\ Explorable /\ Start
    \/ Stop
    \/ \E e \in Elapsed : Explorable /\ Tick(e) /\ Within
    \/ \E dt \in Deltas : Explorable /\ UpdateCall(dt) /\ Within

StallSpec == TimingInit /\ [][StallNext]_vars

(* Style transitions with the transition observer attached: the durations  *)
(* and the reduced-motion preference stay as they were set before the        *)
(* engine started, and beginTransition() and reset() are called at any       *)
(* moment.                                                                    *)
TransitionInit ==
    \E v \in Variants, reduce \in BOOLEAN :
        /\ Construct(v, reduce) /\ phaseTime = Unobserved /\ outTime = 0
        /\ quality = Untracked
        /\ canvas = Unwatched
        /\ AtRest

Untouched == Unstarted /\ ~transitioningOut /\ transitionAlpha = One

TransitionNext ==
    \/ Untouched /\ SetImages(PoolA)
    \/ \E v \in Durations : Untouched /\ SetFadeDuration(v)
    \/ \E v \in Durations : Untouched /\ SetHoldDuration(v)
    \/ HasCategories /\ Explorable /\ Start
    \/ BeginTransition
    \/ Reset
    \/ \E e \in Elapsed : Explorable /\ Tick(e) /\ Within
    \/ \E dt \in Deltas : Explorable /\ UpdateCall(dt) /\ Within
TransitionSpec == TransitionInit /\ [][TransitionNext]_vars

(* Style transitions under a fair frame scheduler: while the engine runs    *)
(* the browser keeps delivering animation frames; beginTransition() and      *)
(* reset() are called at any moment.                                         *)
FadeOutNext ==
    \/ Untouched /\ SetImages(PoolA)
    \/ \E v \in Durations : Untouched /\ SetFadeDuration(v)
    \/ Untouched /\ SetHoldDuration(1)
    \/ HasCategories /\ Explorable /\ Start
    \/ BeginTransition
    \/ Reset
    \/ LiveTick

FadeOutSpec == TransitionInit /\ [][FadeOutNext]_vars /\ WF_vars(LiveTick)

(* The frame driver on the wall clock: the clock advances in steps, the     *)
(* pending frame callbacks run at any moment, and start, stop, pause and     *)
(* resume are called between frames.  The exploration follows the frames     *)
(* whose delta is a whole number of units, with the shortest durations.      *)
DriverNext ==
    \/ Unstarted /\ SetImages(PoolA)
    \/ Unstarted /\ SetFadeDuration(1)
    \/ Unstarted /\ SetHoldDuration(1)
    \/ HasCategories /\ Explorable /\ Start
    \/ Stop
    \/ Pause
    \/ Resume
    \/ Advance
    \/ Frame /\ Within

DriverSpec == Init /\ [][DriverNext]_vars

(* The same driver with an observer that calls stop() when it receives an   *)
(* event during a frame.                                                     *)
ObserverNext ==
    \/ DriverNext
    \/ FrameStopping /\ Within

ObserverSpec == Init /\ [][ObserverNext]_vars

(* Fade-in after a style transition, under a fair frame scheduler: the fade  *)
(* slider is moved at any moment, up to SlowFade, beginTransition() and      *)
(* reset() are called at any moment, and the engine is driven by frames.     *)
FadeInTick ==
    \E e \in Elapsed :
        fadeDuration <= SlowFade /\ holdDuration <= MaxDuration /\ Tick(e) /\ Within

FadeInNext ==
    \/ Untouched /\ SetImages(PoolA)
    \/ \E v \in Durations \cup {SlowFade} : SetFadeDuration(v)
    \/ Untouched /\ SetHoldDuration(1)
    \/ HasCategories /\ fadeDuration <= SlowFade /\ holdDuration <= MaxDuration /\ Start
    \/ BeginTransition
    \/ Reset
    \/ FadeInTick

FadeInSpec == TransitionInit /\ [][FadeInNext]_vars /\ WF_vars(FadeInTick)

(* The quality monitor of the premium build, tracked, next to a second       *)
(* premium engine on a device of the other initial tier that is given the    *)
(* same frames.  The frames of each second are some slow ones, 50 ms apart,  *)
(* followed by fast ones, one refresh interval apart; the exploration         *)
(* follows MaxChecks seconds.                                                 *)
SlowFrames == {0, 5, 8, 20}

QualityInit ==
    \E reduce \in BOOLEAN, tier \in {"A", "B"} :
        /\ Construct("premium", reduce) /\ phaseTime = Unobserved /\ outTime = Unobserved
        /\ quality = Tracked(tier, IF tier = "A" THEN "B" ELSE "A")
        /\ canvas = Unwatched
        /\ AtRest

QualityNext ==
    \/ Unstarted /\ SetImages(PoolA)
    \/ Unstarted /\ SetFadeDuration(1)
    \/ Unstarted /\ SetHoldDuration(1)
    \/ HasCategories /\ Explorable /\ Start
    \/ \E p \in SlowFrames : running /\ SetPace(p)
    \/ /\ quality.checks < MaxChecks /\ quality.frameCount < quality.pace
       /\ Explorable /\ Tick(1)
    \/ /\ quality.checks < MaxChecks /\ quality.frameCount >= quality.pace
       /\ Explorable /\ FastTicks

QualitySpec == QualityInit /\ [][QualityNext]_vars

(* Reduced motion: the base and premium builds constructed on a device that *)
(* prefers reduced motion, the preference and the fade slider (default       *)
(* duration included) changing at any time, driven by frames and by direct   *)
(* updates.                                                                  *)
ReducedInit ==
    \E v \in Variants \ {"legacy"} :
        /\ Construct(v, TRUE) /\ phaseTime = Unobserved /\ outTime = Unobserved
        /\ quality = Untracked
        /\ canvas = Unwatched
        /\ AtRest

ReducedNext ==
    \/ \E pool \in Pools : Unstarted /\ SetImages(pool)
    \/ \E v \in Durations : SetFadeDuration(v)
    \/ Unstarted /\ SetHoldDuration(1)
    \/ \E b \in BOOLEAN : SetReducedMotion(b)
    \/ HasCategories /\ holdDuration <= MaxDuration /\ Start
    \/ \E e \in Elapsed : holdDuration <= MaxDuration /\ Tick(e) /\ Within
    \/ \E dt \in Deltas : holdDuration <= MaxDuration /\ UpdateCall(dt) /\ Within

ReducedSpec == ReducedInit /\ [][ReducedNext]_vars

(* The sliders at runtime: fade and hold durations of 1, 2 and SlowFade      *)
(* units assigned at any moment while the engine cycles, reduced motion off, *)
(* no style transition.                                                      *)
SliderValues == Durations \cup {SlowFade}

SliderInit ==
    \E v \in Variants :
        /\ Construct(v, FALSE) /\ phaseTime = Unobserved /\ outTime = Unobserved
        /\ quality = Untracked
        /\ canvas = Unwatched
        /\ AtRest

SliderReady == fadeDuration <= SlowFade /\ holdDuration <= SlowFade

SliderNext ==
    \/ Unstarted /\ SetImages(PoolA)
    \/ \E v \in SliderValues : SetFadeDuration(v)
    \/ \E v \in SliderValues : SetHoldDuration(v)
    \/ HasCategories /\ SliderReady /\ Start
    \/ \E e \in Elapsed : SliderReady /\ Tick(e) /\ Within
    \/ \E dt \in Deltas : SliderReady /\ UpdateCall(dt) /\ Within

SliderSpec == SliderInit /\ [][SliderNext]_vars

(* Scenario A: two categories of two loaded images each, fade and hold of   *)
(* one second, reduced motion off; the engine is started and its frames run  *)
(* through the first fade and the first hold and MaxStateTime into the       *)
(* second fade.                                                              *)
OneSecond == 20

ScenarioInit ==
    \E v \in Variants :
        /\ Construct(v, FALSE) /\ phaseTime = Unobserved /\ outTime = Unobserved
        /\ quality = Untracked
        /\ canvas = Unwatched
        /\ AtRest

ScenarioNext ==
    \/ Unstarted /\ SetImages(PoolTwoEach)
    \/ Unstarted /\ SetFadeDuration(OneSecond)
    \/ Unstarted /\ SetHoldDuration(OneSecond)
    \/ /\ HasCategories /\ Unstarted
       /\ fadeDuration = OneSecond /\ holdDuration = OneSecond
       /\ Start
    \/ \E e \in Elapsed :
          /\ currentZoneIndex = 0 \/ stateTime < MaxStateTime
          /\ Tick(e)

ScenarioSpec == ScenarioInit /\ [][ScenarioNext]_vars

(* The engine with its canvas watched: images whose two categories both      *)
(* have images, a frame overlay and a background, started, stopped, paused   *)
(* and resumed, in a style transition or not, resized and rendered at any    *)
(* moment.  The default durations are explored as far as MaxStateTime and   *)
(* without a style transition.                                               *)
Sizes == {1, 2}

RenderInit ==
    \E v \in Variants :
        /\ Construct(v, FALSE) /\ phaseTime = Unobserved /\ outTime = Unobserved
        /\ quality = Untracked
        /\ canvas = Blank(1)
        /\ AtRest

RenderNext ==
    \/ Unstarted /\ SetImages(PoolA)
    \/ Unstarted /\ SetFrame("frame")
    \/ Unstarted /\ SetBackground("background")
    \/ Unstarted /\ SetFadeDuration(MaxDuration)
    \/ Unstarted /\ SetHoldDuration(1)
    \/ HasCategories /\ Unstarted /\ Start
    \/ Stop
    \/ Pause
    \/ Resume
    \/ Explorable /\ ~transitioningOut /\ BeginTransition
    \/ \E e \in Elapsed : Tick(e) /\ Within
    \/ \E size \in Sizes : Resize(size)
    \/ Render

RenderSpec == RenderInit /\ [][RenderNext]_vars

----------------------------------------------------------------------------
(* The application: an engine of the base or the premium build with an      *)
(* empty image cache, the sliders set before the first style is selected,   *)
(* then styles selected at any moment, also while earlier loads wait for    *)
(* their images, every load succeeding or failing, and frames in between.   *)
LoadInit ==
    \E v \in {"base", "premium"} :
        /\ Construct(v, FALSE) /\ phaseTime = Unobserved /\ outTime = Unobserved
        /\ quality = Untracked
        /\ canvas = Blank(1)
        /\ bitmapCache = EmptyCache
        /\ issued = [u \in Urls |-> 0]
        /\ closed = {}
        /\ currentStyle = Null
        /\ loads = <<>>

LoadNext ==
    \/ loads = <<>> /\ SetFadeDuration(1)
    \/ loads = <<>> /\ SetHoldDuration(1)
    \/ \E style \in Styles : ~Queued /\ Explorable /\ LoadStyle(style)
    \/ \E i \in 1..MaxLoads, src \in Urls, ok \in BOOLEAN : ~Queued /\ LoadImageSettles(i, src, ok)
    \/ \E i \in 1..MaxLoads : ~Queued /\ BatchYield(i)
    \/ \E i \in 1..MaxLoads : LoadStyleAfterPreload(i)
    \/ \E i \in 1..MaxLoads, ok \in BOOLEAN : ~Queued /\ UpdateFrameSettles(i, ok)
    \/ \E i \in 1..MaxLoads : LoadStyleAfterFrame(i)
    \/ ~Queued /\ Tick(1) /\ ~Raises(Scene') /\ Within
    \/ ~Queued /\ TickRaising(1) /\ Within

LoadSpec == LoadInit /\ [][LoadNext]_vars

(* preloadAll by itself: calls with lists of up to three sources, also       *)
(* while an earlier call waits for its images; every load eventually        *)
(* succeeds or fails, and every timer fires.                                 *)
SourceLists == {<<>>, <<"p1", "g1">>, <<"g1", "p2", "p1">>}

PreloadInit ==
    \E v \in {"base", "premium"} :
        /\ Construct(v, FALSE) /\ phaseTime = Unobserved /\ outTime = Unobserved
        /\ quality = Untracked
        /\ canvas = Unwatched
        /\ bitmapCache = EmptyCache
        /\ issued = [u \in Urls |-> 0]
        /\ closed = {}
        /\ currentStyle = Null
        /\ loads = <<>>

PreloadSettles == \E i \in 1..MaxLoads, src \in Urls, ok \in BOOLEAN : LoadImageSettles(i, src, ok)
PreloadYields == \E i \in 1..MaxLoads : BatchYield(i)

PreloadNext ==
    \/ \E sources \in SourceLists : PreloadCall(sources)
    \/ PreloadSettles
    \/ PreloadYields

PreloadSpec ==
    /\ PreloadInit /\ [][PreloadNext]_vars
    /\ WF_vars(PreloadSettles) /\ WF_vars(PreloadYields)

----------------------------------------------------------------------------
(* C1: from an engine set up with setImages with a non-empty category list, *)
(* under any sequence of start() and update(dt), the state changes only by   *)
(* IDLE -> FADING in start(), FADING -> HOLDING in update() and              *)
(* HOLDING -> FADING in update(); no update() moves the state to IDLE.       *)
C1_StateSequence ==
    [][state' # state
        => \/ state = "IDLE" /\ state' = "FADING" /\ lastCall'.op = "start"
           \/ state = "FADING" /\ state' = "HOLDING" /\ lastCall'.op \in Updates
           \/ state = "HOLDING" /\ state' = "FADING" /\ lastCall'.op \in Updates]_vars

(* the cycle went round: a direct update() ended a hold and began the fade  *)
(* of the second category                                                    *)
C1_Witness ==
    /\ state = "FADING"
    /\ currentZoneIndex = 1
    /\ lastCall.op = "update" /\ lastCall.fadeStart

(* C2: once start() was called and until stop() is called, with frames      *)
(* continuing (no transition-out in progress), a zone fade start always      *)
(* eventually occurs again, whatever setImages, reset, setFrame and duration *)
(* changes happened while the engine ran.  The obligation is waived when the *)
(* engine is stopped, when its frame loop has died, when reset or setImages  *)
(* is called yet again, and beyond MaxSet cycles.                            *)
C2_FadeRecurs ==
    [](running
        => <>(\/ lastCall.fadeStart
              \/ ~running
              \/ ~animationId
              \/ transitioningOut
              \/ lastCall.op \in {"reset", "setImages"}
              \/ currentSet >= MaxSet))

(* C3: every HOLDING -> FADING transition of update() moves currentZoneIndex *)
(* one position on in the category order; from the last category it goes to *)
(* 0 and currentSet is incremented once (from SetWrap - 1 the counter goes   *)
(* to 0 instead); no other update step changes currentZoneIndex or           *)
(* currentSet.                                                               *)
C3_CursorAdvance ==
    [][lastCall'.op \in Updates
        => IF state = "HOLDING" /\ state' = "FADING"
           THEN IF currentZoneIndex + 1 = Len(categories)
                THEN /\ currentZoneIndex' = 0
                     /\ currentSet' = (currentSet + 1) % SetWrap
                ELSE /\ currentZoneIndex' = currentZoneIndex + 1
                     /\ currentZoneIndex' < Len(categories)
                     /\ currentSet' = currentSet
           ELSE UNCHANGED <<currentZoneIndex, currentSet>>]_vars

(* a frame ended the hold of the last category of cycle SetWrap - 1: the    *)
(* cursor is back at the first category and the counter back at 0            *)
C3_Witness ==
    /\ lastCall.op = "tick" /\ lastCall.fadeStart
    /\ Len(categories) = 2
    /\ currentZoneIndex = 0
    /\ currentSet = 0
    /\ state = "FADING"

Distinct(s) == \A i, j \in 1..Len(s) : i # j => s[i] # s[j]

(* C4, as amended: for every category with n >= 1 images, the selections     *)
(* made since its used set was last cleared returned pairwise distinct        *)
(* images, which are exactly the members of the used set; and when all n     *)
(* images are in the used set, the next selection may return any image of    *)
(* the category.                                                              *)
C4_NoRepeatWithinWindow ==
    \A c \in DOMAIN usedImages :
        LET k == Cardinality(usedImages[c])
        IN  /\ usedImages[c] \subseteq imagesByColor[c]
            /\ k <= Len(picks[c])
            /\ Distinct(LastN(picks[c], k))
            /\ Range(LastN(picks[c], k)) = usedImages[c]
            /\ (imagesByColor[c] # {} /\ usedImages[c] = imagesByColor[c]
                    => Candidates(c) = imagesByColor[c])

(* a second window has begun in the four-image category: the used set was   *)
(* cleared and the fifth selection returned the image of the third           *)
C4_Witness ==
    /\ Cardinality(imagesByColor["pink"]) = 4
    /\ Len(picks["pink"]) = 4
    /\ Cardinality(usedImages["pink"]) = 1
    /\ picks["pink"][4] = picks["pink"][2]

(* C4, as stated: for every category with n >= 1 images, no run of fewer     *)
(* than n consecutive selections returns an image twice.                     *)
C4_NoRepeatInShortRuns ==
    \A c \in DOMAIN usedImages :
        LET n == Cardinality(imagesByColor[c])
        IN  n >= 1 => Distinct(LastN(picks[c], n - 1))

(* C5: for a category with at least two images, two consecutive selections   *)
(* never return the same image.                                               *)
C5_NoImmediateRepeat ==
    \A c \in DOMAIN usedImages :
        (Cardinality(imagesByColor[c]) >= 2 /\ Len(picks[c]) >= 2)
            => Distinct(LastN(picks[c], 2))

(* C6: with constant durations and reduced motion off, a FADING phase ends  *)
(* at the first update() at which the deltas summed since the phase began    *)
(* reach fadeDuration, and not before; a HOLDING phase likewise with         *)
(* holdDuration; and stateTime is 0 after every phase change.                *)
C6_PhaseLength ==
    [][lastCall'.op \in Updates
        => LET total == phaseTime + lastCall'.dt
           IN  /\ state = "FADING"
                    => /\ (state' # state <=> total >= fadeDuration)
                       /\ (state' # state => phaseTime < fadeDuration)
               /\ state = "HOLDING"
                    => /\ (state' # state <=> total >= holdDuration)
                       /\ (state' # state => phaseTime < holdDuration)
               /\ (state' # state => stateTime' = 0)]_vars

InUnit(a) == RatLeq(Zero, a) /\ RatLeq(a, One)
Inside(a) == RatLess(Zero, a) /\ RatLess(a, One)

(* C7: in every reachable state the alpha of every zone and the global       *)
(* transitionAlpha lie in [0, 1], whatever operations were called and         *)
(* whatever deltas (0 and spikes included) were handed to update().           *)
C7_AlphaRange ==
    /\ InUnit(transitionAlpha)
    /\ \A c \in DOMAIN zones : InUnit(zones[c].alpha)

(* an update with a delta above the frame cap and longer than the fade ended *)
(* a style transition in one step, with the transition alpha stopped at 0,   *)
(* while a zone is in mid-fade                                                *)
C7_Witness ==
    /\ lastCall.op \in Updates
    /\ lastCall.dt > MaxDeltaTime /\ lastCall.dt > EffectiveFade
    /\ lastCall.events = <<TransitionCompleteEvent>>
    /\ transitionAlpha = Zero
    /\ \E c \in DOMAIN zones : zones[c].incoming # Null /\ Inside(zones[c].alpha)

(* C8: start() on an engine that is already running, paused by visibility   *)
(* loss or not, changes nothing: the scheduler state, the cursor, the zones  *)
(* and the used sets stay as they were, no image is selected, no event is    *)
(* emitted and no further frame callback is armed.                           *)
C8_StartIdempotent ==
    [][(lastCall'.op = "start" /\ running)
        => /\ UNCHANGED <<engine, picks, phaseTime>>
           /\ lastCall'.events = NoEvents
           /\ ~lastCall'.fadeStart]_vars

(* start() was called on a running engine that is paused, in mid-cycle *)
C8_Witness ==
    /\ lastCall.op = "start"
    /\ running /\ paused
    /\ state = "HOLDING"
    /\ \E c \in DOMAIN zones : zones[c].current # Null

(* C9: stop() leaves the scheduler state as it was (state, stateTime, the    *)
(* cursor, every zone, the used sets, the transition alpha and flag), and a  *)
(* second stop() right after the first changes nothing and raises no error.  *)
C9_StopPreservesScheduler ==
    [][lastCall'.op = "stop"
        => /\ UNCHANGED sched
           /\ ~lastCall'.threw
           /\ (lastCall.op = "stop" => UNCHANGED <<engine, picks, phaseTime>>)]_vars

(* stop() was called in the middle of a fade, during a style transition *)
C9_Witness ==
    /\ lastCall.op = "stop"
    /\ ~running
    /\ state = "FADING" /\ stateTime > 0
    /\ transitioningOut
    /\ \E c \in DOMAIN zones : zones[c].incoming # Null /\ RatLess(Zero, zones[c].alpha)

(* C10: reset(), from any reachable state, leaves the cursor at category 0   *)
(* of cycle 0, the state IDLE, every used set empty and every zone without   *)
(* current and incoming image and with alpha 0; the image pool, the category *)
(* order, the frame, the background and the durations are unchanged; and a   *)
(* reset() of an engine that was just reset changes nothing.                 *)
C10_ResetPostcondition ==
    [][lastCall'.op = "reset"
        => /\ currentZoneIndex' = 0
           /\ currentSet' = 0
           /\ state' = "IDLE"
           /\ \A c \in DOMAIN usedImages' : usedImages'[c] = {}
           /\ \A c \in DOMAIN zones' : zones'[c] = EmptyZone
           /\ DOMAIN zones' = DOMAIN zones /\ DOMAIN usedImages' = DOMAIN usedImages
           /\ UNCHANGED <<imagesByColor, categories, frameImage, backgroundImage,
                          fadeDuration, holdDuration>>
           /\ (lastCall.op \in {"new", "reset", "setImages"} => UNCHANGED engine)]_vars

(* reset() was called on a running engine that has images, a frame and a   *)
(* background                                                               *)
C10_Witness ==
    /\ lastCall.op = "reset"
    /\ running
    /\ frameImage # Null /\ backgroundImage # Null
    /\ categories # <<>>
    /\ imagesByColor["pink"] # {}

(* C11: setImages, called in any state of the engine, installs the pool and *)
(* the category order it was given and leaves the scheduler reset: state     *)
(* IDLE, cursor at category 0 of cycle 0, no style transition, exactly one   *)
(* zone and one used set per listed category, every zone without image and   *)
(* with alpha 0, every used set empty; a category whose image list is empty  *)
(* is accepted and no error is raised.                                       *)
C11_SetImagesPostcondition ==
    [][lastCall'.op = "setImages"
        => /\ \E pool \in Pools : categories' = pool.cats /\ imagesByColor' = pool.imgs
           /\ state' = "IDLE" /\ stateTime' = 0
           /\ currentZoneIndex' = 0 /\ currentSet' = 0
           /\ ~transitioningOut' /\ transitionAlpha' = One
           /\ DOMAIN zones' = Range(categories')
           /\ DOMAIN usedImages' = Range(categories')
           /\ \A c \in Range(categories') : zones'[c] = EmptyZone /\ usedImages'[c] = {}
           /\ ~lastCall'.threw
           /\ UNCHANGED <<running, paused, frameImage, backgroundImage,
                          fadeDuration, holdDuration>>]_vars

(* setImages was called on a running engine with a pool in which one listed *)
(* category has no image                                                     *)
C11_Witness ==
    /\ lastCall.op = "setImages"
    /\ running
    /\ \E c \in Range(categories) : imagesByColor[c] = {}
    /\ \E c \in Range(categories) : imagesByColor[c] # {}

(* a step that enters FADING: start() on an engine that is not running, or *)
(* an update() that ends a hold                                             *)
EntersFading ==
    \/ lastCall'.op = "start" /\ ~running
    \/ lastCall'.op \in Updates /\ state = "HOLDING" /\ state' = "FADING"

(* every image of category c has a decoded handle in the cache *)
Available(c) == c # Null /\ imagesByColor[c] # {} /\ imagesByColor[c] \subseteq Loaded

(* C12, as amended: an entry into FADING for which an image with a loaded    *)
(* handle is selected emits exactly one status event, which carries the      *)
(* active category categories[currentZoneIndex] and the set number           *)
(* currentSet + 1, and the image is then the incoming image of the active    *)
(* zone at alpha 0; it is emitted whenever every image of the active         *)
(* category is loaded; an entry for which no image is available (no          *)
(* category, a category without images) emits none and leaves the zones as   *)
(* they were; and no status event is emitted by any other step.              *)
C12_StatusOnFadeStart ==
    [][IF EntersFading
       THEN LET c == CategoryAt(currentZoneIndex')
                status == <<StatusEvent(c, currentSet' + 1)>>
            IN  /\ lastCall'.events \in {status, NoEvents}
                /\ Available(c) => lastCall'.events = status
                /\ (c = Null \/ imagesByColor[c] = {}) => lastCall'.events = NoEvents
                /\ lastCall'.events = status
                        => zones'[c].incoming \in Loaded /\ zones'[c].alpha = Zero
                /\ lastCall'.events = NoEvents => zones' = zones
       ELSE \A i \in 1..Len(lastCall'.events) : lastCall'.events[i].type # "status"]_vars

(* an update() ended the hold of the last category of the first cycle and   *)
(* announced the first category with set number 2                            *)
C12_Witness ==
    /\ lastCall.op \in Updates
    /\ state = "FADING"
    /\ currentZoneIndex = 0 /\ currentSet = 1
    /\ lastCall.events = <<StatusEvent(CategoryAt(0), 2)>>

(* C12, as stated: every entry into FADING, by start() or by an update()     *)
(* that ends a hold, emits exactly one status event carrying the active      *)
(* category and the set number currentSet + 1; no other step emits one.      *)
C12_StatusOnEveryFadeEntry ==
    [][IF EntersFading
       THEN lastCall'.events = <<StatusEvent(CategoryAt(currentZoneIndex'), currentSet' + 1)>>
       ELSE \A i \in 1..Len(lastCall'.events) : lastCall'.events[i].type # "status"]_vars

(* C13: no update() raises an error, whatever configuration the engine was  *)
(* given (an empty category list, a category without images, an image        *)
(* without loaded handle), and every frame ends with the next frame          *)
(* callback armed.                                                           *)
C13_UpdateNeverThrows ==
    /\ ~lastCall.threw
    /\ lastCall.op = "tick" => animationId /\ pending > 0

(* C14: when the active category has no image, no update() raises, the zone *)
(* of that category stays without current and incoming image, the FADING     *)
(* phase ends at the first update() at which the deltas summed since it      *)
(* began reach the fade duration and the HOLDING phase likewise with the     *)
(* hold duration, after which the cursor moves on to the next category; and  *)
(* every hold that ends at a category whose images are loaded gives the      *)
(* zone of that category a new incoming image.                               *)
C14_EmptyCategoryNoStall ==
    [][lastCall'.op \in Updates
        => LET c == CategoryAt(currentZoneIndex)
               next == CategoryAt(currentZoneIndex')
               total == phaseTime + lastCall'.dt
           IN  /\ ~lastCall'.threw
               /\ (c # Null /\ imagesByColor[c] = {})
                    => /\ zones'[c].current = Null /\ zones'[c].incoming = Null
                       /\ state = "FADING"
                            => state' = (IF total >= fadeDuration THEN "HOLDING" ELSE "FADING")
                       /\ state = "HOLDING"
                            => IF total >= holdDuration
                               THEN /\ state' = "FADING"
                                    /\ currentZoneIndex' = (currentZoneIndex + 1) % Len(categories)
                               ELSE state' = "HOLDING" /\ UNCHANGED currentZoneIndex
               /\ (state = "HOLDING" /\ state' = "FADING" /\ Available(next))
                    => /\ zones'[next].incoming \in imagesByColor[next]
                       /\ zones'[next].alpha = Zero]_vars

(* the cursor went twice past the category without images: the other        *)
(* category shows its image of the first cycle and fades in the second       *)
C14_Witness ==
    /\ categories = PoolE.cats /\ imagesByColor["green"] = {}
    /\ lastCall.op \in Updates /\ lastCall.fadeStart
    /\ currentSet = 1 /\ currentZoneIndex = 1
    /\ state = "FADING"
    /\ zones["green"] = EmptyZone
    /\ zones["pink"].current # Null /\ zones["pink"].incoming # Null

(* C15: at any moment at most one frame callback is pending, under every   *)
(* interleaving of start(), stop(), pause(), resume() and frames, stop()     *)
(* called by an observer during a frame included.                            *)
C15_SingleCallback == pending <= 1

(* C16: once stop() has returned and until start() is called again, no      *)
(* frame callback is pending, wherever stop() was called from.               *)
C16_StopLeavesNothingPending == ~running => pending = 0

(* C17: while the engine is paused no update() runs and stateTime, the      *)
(* zones and the transition alpha do not change; and the delta a frame       *)
(* hands to update() is never longer than the time that passed since the     *)
(* engine was resumed, so that the time spent paused adds nothing.           *)
C17_PauseFreezesTime ==
    [][/\ paused => /\ lastCall'.op \notin Updates
                    /\ UNCHANGED <<state, stateTime, zones, transitionAlpha, transitionTime>>
       /\ lastCall'.op = "tick" => lastCall'.dt * UnitSteps <= wall]_vars

(* the engine was resumed after a pause longer than the delta cap, and its  *)
(* clock baseline is the moment of resume()                                  *)
C17_Witness ==
    /\ lastCall.op = "resume"
    /\ running /\ ~paused
    /\ hidden > MaxDeltaTime * UnitSteps
    /\ wall = 0 /\ sinceLastTime = 0
    /\ pending = 1
    /\ state = "FADING" /\ stateTime > 0

(* C18: the delta a frame hands to update() is at most 100 ms, however long *)
(* ago the previous frame was.                                               *)
C18_DeltaCapped == lastCall.op = "tick" => lastCall.dt <= MaxDeltaTime

(* C19: a frame that arrives sooner after the last processed frame than the *)
(* limiter threshold runs no update() and changes nothing but the pending    *)
(* callback, which it requests again; a frame is skipped exactly when it     *)
(* arrives that soon; and the delta of a processed frame is the whole time   *)
(* since the last processed frame (or start, or resume), skipped frames      *)
(* included, as long as that time is at most 100 ms.                         *)
C19_LimiterKeepsTiming ==
    [][/\ lastCall'.op = "skip"
            => /\ UNCHANGED <<sched, config, running, paused, pending, clock, picks>>
               /\ animationId'
       /\ (lastCall'.op \in {"skip", "tick"} /\ variant # "legacy")
            => (lastCall'.op = "skip"
                  <=> wall * FramesPerUnit * 100
                        < UnitSteps * (IF variant = "premium" THEN LimiterPremium
                                                              ELSE LimiterBase))
       /\ (lastCall'.op = "tick" /\ wall <= MaxDeltaTime * UnitSteps)
            => lastCall'.dt * UnitSteps = wall]_vars

(* a frame came one clock step after the last processed one and was skipped *)
(* in the middle of a fade                                                   *)
C19_Witness ==
    /\ lastCall.op = "skip"
    /\ wall = 1 /\ sinceLastTime = 1 /\ sinceLastFrame = 1
    /\ pending = 1 /\ animationId
    /\ state = "FADING" /\ stateTime > 0

(* C20: beginTransition(), called at any moment, puts the global alpha to 1, *)
(* and the alpha then reaches 0, and the fade-out ends, at the first          *)
(* update() at which the deltas summed since that call reach the effective    *)
(* fade duration, and not before.                                             *)
C20_FadeOutLength ==
    [][/\ lastCall'.op = "beginTransition" => transitionAlpha' = One /\ transitioningOut'
       /\ (lastCall'.op \in Updates /\ transitioningOut)
            => LET total == outTime + lastCall'.dt
               IN  /\ transitionAlpha' = Zero <=> total >= EffectiveFade
                   /\ ~transitioningOut' <=> total >= EffectiveFade]_vars

Completes(events) == TransitionCompleteEvent \in Range(events)

(* C21, as amended: a fade-out episode that updates bring to its end ends    *)
(* with exactly one transition-complete notification, emitted by the update  *)
(* in which transitionAlpha becomes 0 and the flag is cleared; an episode    *)
(* that reset() or setImages() cuts short ends without notification; no      *)
(* notification is emitted by any other step, during fade-in or while no     *)
(* transition-out is active; and while the engine runs and frames continue   *)
(* every episode comes to its end, unless beginTransition() is called again  *)
(* and starts the fade-out anew.                                             *)
C21_OneCompletionPerFadeOut ==
    /\ [][/\ (lastCall'.op \in Updates /\ transitioningOut)
               => /\ ~transitioningOut' <=> transitionAlpha' = Zero
                  /\ ~transitioningOut' <=> lastCall'.events = <<TransitionCompleteEvent>>
                  /\ transitioningOut' => lastCall'.events = NoEvents
          /\ Completes(lastCall'.events)
               => lastCall'.op \in Updates /\ transitioningOut /\ ~transitioningOut'
          /\ (transitioningOut /\ ~transitioningOut' /\ lastCall'.op \notin Updates)
               => lastCall'.op \in {"reset", "setImages"} /\ lastCall'.events = NoEvents]_vars
    /\ []((transitioningOut /\ running /\ animationId)
            => <>(~transitioningOut \/ lastCall.op = "beginTransition"))

(* a fade-out of several updates came to its end: the last update put the   *)
(* alpha to 0, cleared the flag and emitted the notification                 *)
C21_Witness ==
    /\ lastCall.op = "tick"
    /\ lastCall.events = <<TransitionCompleteEvent>>
    /\ lastCall.dt < EffectiveFade
    /\ outTime >= EffectiveFade
    /\ transitionAlpha = Zero /\ ~transitioningOut
    /\ running

(* C21, as stated: every fade-out episode during which frames were          *)
(* delivered ends with exactly one transition-complete notification,         *)
(* emitted by the update in which transitionAlpha becomes 0 and the flag is  *)
(* cleared, and no notification is emitted otherwise.                        *)
C21_CompletionOnEveryEpisodeEnd ==
    [][/\ (transitioningOut /\ ~transitioningOut' /\ running /\ animationId /\ outTime > 0)
            => /\ lastCall'.op \in Updates
               /\ lastCall'.events = <<TransitionCompleteEvent>>
               /\ transitionAlpha' = Zero
       /\ Completes(lastCall'.events) => transitioningOut /\ ~transitioningOut']_vars

(* C22: once a fade-out has completed and as long as beginTransition() is   *)
(* not called again, transitionAlpha never decreases and, once 1, stays 1;   *)
(* and while the engine runs and frames continue it eventually equals 1      *)
(* (the obligation is waived when beginTransition() is called again and      *)
(* beyond MaxSet cycles).                                                    *)
C22_FadeInMonotone ==
    /\ [][(~transitioningOut /\ ~transitioningOut')
            => RatLeq(transitionAlpha, transitionAlpha')]_vars
    /\ []((~transitioningOut /\ running /\ animationId)
            => <>(transitionAlpha = One \/ transitioningOut \/ currentSet >= MaxSet))

TierRank(t) == CASE t = "A" -> 0 [] t = "B" -> 1 [] OTHER -> 2

(* C23: the quality tier only moves downward, by one level at a time and at *)
(* most one level per one-second check, A -> B only when the effective fps   *)
(* measured over the frame-time window is below 55 and B -> C only when it   *)
(* is below 45; each downgrade emits exactly one quality-change              *)
(* notification, which carries the new tier and the measured fps, and no     *)
(* notification is emitted without a downgrade.                              *)
C23_TierOnlyDowngrades ==
    [][quality.tracked
        => LET old == quality.qualityTier
               new == quality'.qualityTier
               fps == EffectiveFps(quality'.frameTimes)
           IN  /\ TierRank(new) - TierRank(old) \in {0, 1}
               /\ new # old
                    => /\ quality'.checks = quality.checks + 1
                       /\ Len(quality'.frameTimes) >= WindowMin
                       /\ old = "A" => RatLess(fps, <<DowngradeA, 1>>)
                       /\ old = "B" => RatLess(fps, <<DowngradeB, 1>>)
                       /\ quality'.notified
                            = Append(quality.notified, QualityEvent(new, fps))
               /\ new = old => quality'.notified = quality.notified]_vars

(* the tier went from A to B at a check that measured between 45 and 55     *)
(* fps, then from B to C, and a later check that measured 60 fps left it     *)
(* at C                                                                      *)
C23_Witness ==
    /\ quality.tracked
    /\ quality.qualityTier = "C"
    /\ Len(quality.notified) = 2
    /\ quality.notified[1].tier = "B" /\ ~RatLess(quality.notified[1].fps, <<DowngradeB, 1>>)
    /\ quality.notified[2].tier = "C"
    /\ quality.checks = 3 /\ quality.currentFps = RefreshRate
    /\ EffectiveFps(quality.frameTimes) = <<RefreshRate, 1>>

Shown(ops) == SelectSeq(ops, LAMBDA o : o.op = "draw")

(* C25: every resize() renders the engine's present state before it         *)
(* returns, whether the engine was never started, is running, is paused or   *)
(* was stopped: after the call the canvas shows what render() draws.         *)
C25_ResizeRenders ==
    [][lastCall'.op = "resize" => Shown(canvas'.ops) = Shown(Scene')]_vars

(* the layers of the categories from position i on, each an image and its    *)
(* alpha: the current image if present, then the incoming image if present   *)
(* and more than 0.001 opaque                                                *)
RECURSIVE ZoneLayers(_)
ZoneLayers(i) ==
    IF i > Len(categories) THEN <<>>
    ELSE LET z == zones[categories[i]]
         IN  (IF z.current # Null THEN <<<<z.current, One>>>> ELSE <<>>)
             \o (IF z.incoming # Null /\ z.alpha[1] > z.alpha[2] \div 1000
                 THEN <<<<z.incoming, z.alpha>>>> ELSE <<>>)
             \o ZoneLayers(i + 1)

(* the layers of the picture, bottom to top *)
Layers ==
    (IF backgroundImage # Null THEN <<<<backgroundImage, One>>>> ELSE <<>>)
    \o ZoneLayers(1)
    \o (IF frameImage # Null THEN <<<<frameImage, One>>>> ELSE <<>>)

(* the canvas holds a clear followed by one draw per layer, in order, each   *)
(* with the opacity of its alpha times the transition alpha                  *)
Composited ==
    /\ Len(canvas.ops) = 1 + Len(Layers)
    /\ canvas.ops[1] = ClearOp
    /\ \A k \in 1..Len(Layers) :
          canvas.ops[k + 1] = DrawOp(Layers[k][1], RatMul(Layers[k][2], transitionAlpha))

(* C26: a render() of the base or premium build clears the canvas and then   *)
(* draws the background if set, for each category in declared order its      *)
(* current image if present and then its incoming image if present and above  *)
(* the 0.001 threshold, and the frame overlay last if set, each at its alpha  *)
(* times the transition alpha; and it changes nothing but the canvas.         *)
C26_RenderOrder ==
    [][(variant # "legacy" /\ lastCall'.op \in {"render", "tick"} /\ ~lastCall'.threw)
         => /\ Composited'
            /\ lastCall'.op = "render" => UNCHANGED <<driver, config, sched, quality>>]_vars

(* a render with every kind of layer: background, a current image in each    *)
(* category, a visible incoming image and the frame overlay, while a style    *)
(* transition dims the picture                                               *)
C26_Witness ==
    /\ variant # "legacy"
    /\ lastCall.op = "render"
    /\ Len(canvas.ops) = 6
    /\ \E c \in Range(categories) : zones[c].incoming # Null
    /\ RatLess(Zero, transitionAlpha) /\ RatLess(transitionAlpha, One)

(* the first fade after start(): the first category has no current image    *)
(* yet, and stateTime is the sum of the deltas since start()                 *)
FirstFade ==
    /\ running /\ state = "FADING" /\ currentZoneIndex = 0
    /\ zones[categories[1]].current = Null

(* the first hold: the second category has no image yet, and stateTime is    *)
(* the sum of the deltas since the hold began                                *)
FirstHold ==
    /\ running /\ state = "HOLDING" /\ currentZoneIndex = 0
    /\ zones[categories[2]].current = Null /\ zones[categories[2]].incoming = Null

(* C27: Scenario A.  With categories [pink, green] of two loaded images      *)
(* each, fade and hold of one second and reduced motion off: the frame       *)
(* with which the deltas since start() sum to one second leaves the state    *)
(* HOLDING, pink's current being the image that was its incoming and pink's  *)
(* incoming absent, and no earlier frame leaves FADING; the frame with       *)
(* which the deltas of the hold sum to a further second leaves the state     *)
(* FADING with currentZoneIndex = 1 and a newly selected incoming image of   *)
(* green at alpha 0, and no earlier frame leaves HOLDING.                    *)
C27_ScenarioA ==
    [][lastCall'.op = "tick" =>
         LET total == stateTime + lastCall'.dt
         IN  /\ (FirstFade /\ total < OneSecond) => state' = "FADING"
             /\ (FirstFade /\ total = OneSecond)
                   => /\ state' = "HOLDING"
                      /\ zones.pink.incoming \in {"p1", "p2"}
                      /\ zones'.pink.current = zones.pink.incoming
                      /\ zones'.pink.incoming = Null
             /\ (FirstHold /\ total < OneSecond) => state' = "HOLDING"
             /\ (FirstHold /\ total = OneSecond)
                   => /\ state' = "FADING"
                      /\ currentZoneIndex' = 1
                      /\ zones'.green.incoming \in {"g1", "g2"}
                      /\ zones'.green.alpha = Zero]_vars

(* the second fade has begun, two seconds after start() *)
C27_Witness ==
    /\ fadeDuration = OneSecond /\ holdDuration = OneSecond /\ ~prefersReducedMotion
    /\ imagesByColor = PoolTwoEach.imgs
    /\ lastCall.op = "tick" /\ lastCall.fadeStart
    /\ state = "FADING" /\ currentZoneIndex = 1 /\ stateTime = 0
    /\ zones.pink.current # Null /\ zones.green.incoming # Null

(* the fixed fade duration under reduced motion: 0.1 s in the base build,    *)
(* 0.15 s in the premium build                                               *)
ShortFade == IF variant = "premium" THEN ReducedFadePremium ELSE ReducedFadeBase

(* C28: with the reduced-motion preference active in the base or premium     *)
(* build, an update of the FADING state with an active zone leaves FADING    *)
(* for HOLDING exactly when stateTime reaches the fixed short duration,      *)
(* whatever fadeDuration is, and until then the alpha of the active zone's   *)
(* incoming image is the linear progress stateTime / short duration, one     *)
(* half at the midpoint; the curve applied to a progress of one half gives   *)
(* one half.                                                                 *)
C28_ReducedMotionFade ==
    /\ [][(/\ lastCall'.op \in {"tick", "update"}
           /\ prefersReducedMotion /\ variant # "legacy"
           /\ ~transitioningOut /\ state = "FADING"
           /\ CategoryAt(currentZoneIndex) # Null)
          => LET t == stateTime + lastCall'.dt
                 c == CategoryAt(currentZoneIndex)
             IN  /\ (state' = "HOLDING") <=> (t >= ShortFade)
                 /\ t < ShortFade => stateTime' = t
                 /\ (t < ShortFade /\ zones[c].incoming # Null)
                       => /\ zones'[c].alpha = Rat(t, ShortFade)
                          /\ (2 * t = ShortFade => zones'[c].alpha = Rat(1, 2))
                 /\ t >= ShortFade => zones'[c].current = zones[c].incoming]_vars
    /\ [](prefersReducedMotion => ZoneAlpha(Rat(1, 2)) = Rat(1, 2))

(* half way through a reduced fade that is shorter than fadeDuration and one *)
(* a third of the way through a reduced fade of the premium build            *)
C28_Witness ==
    /\ prefersReducedMotion /\ state = "FADING" /\ fadeDuration > ShortFade
    /\ lastCall.op = "tick"
    /\ \E c \in Range(categories) :
          /\ zones[c].incoming # Null
          /\ \/ variant = "base" /\ stateTime = 1 /\ zones[c].alpha = Rat(1, 2)
             \/ variant = "premium" /\ stateTime = 1 /\ zones[c].alpha = Rat(1, 3)

(* C29: assigning fadeDuration or holdDuration at runtime changes no         *)
(* scheduler state at the assignment; the next update() adds its delta to    *)
(* the stateTime accumulated so far and evaluates the sum against the value  *)
(* assigned last: it leaves FADING exactly if the sum has reached            *)
(* fadeDuration, else sets the incoming alpha to the curve of                *)
(* sum / fadeDuration, and leaves HOLDING exactly if the sum has reached     *)
(* holdDuration.                                                             *)
C29_DurationChangeDeferred ==
    [][/\ lastCall'.op \in {"setFadeDuration", "setHoldDuration"}
          => UNCHANGED <<sched, driver, picks>>
       /\ (/\ lastCall'.op \in {"tick", "update"}
           /\ ~prefersReducedMotion /\ ~transitioningOut /\ HasCategories)
          => LET t == stateTime + lastCall'.dt
                 c == CategoryAt(currentZoneIndex)
             IN  /\ state = "FADING" =>
                       /\ (state' = "HOLDING") <=> (t >= fadeDuration)
                       /\ (t < fadeDuration /\ zones[c].incoming # Null)
                             => zones'[c].alpha = ZoneAlpha(Rat(t, fadeDuration))
                       /\ t < fadeDuration => stateTime' = t
                 /\ state = "HOLDING" =>
                       /\ (state' = "FADING") <=> (t >= holdDuration)
                       /\ t < holdDuration => stateTime' = t]_vars

(* a slider was just moved in the middle of a phase, to a duration that the  *)
(* accumulated stateTime already exceeds, and the phase is still in progress *)
C29_Witness ==
    /\ running /\ stateTime > 0
    /\ \/ lastCall.op = "setFadeDuration" /\ state = "FADING" /\ stateTime >= fadeDuration
       \/ lastCall.op = "setHoldDuration" /\ state = "HOLDING" /\ stateTime >= holdDuration

(* the categories whose zone holds an incoming image *)
Incoming == {c \in DOMAIN zones : zones[c].incoming # Null}

(* C30: in every reachable state a zone without an incoming image has alpha *)
(* 0, and at most one zone has an incoming image: the zone of                *)
(* categories[currentZoneIndex], while the state is FADING.                  *)
C30_OneIncoming ==
    /\ \A c \in DOMAIN zones : zones[c].incoming = Null => zones[c].alpha = Zero
    /\ Cardinality(Incoming) <= 1
    /\ \A c \in Incoming : c = CategoryAt(currentZoneIndex) /\ state = "FADING"

(* a fade in progress in the second category, part of the way *)
C30_Witness ==
    /\ state = "FADING" /\ currentZoneIndex = 1
    /\ Incoming = {CategoryAt(1)}
    /\ RatLess(Zero, zones[CategoryAt(1)].alpha)
    /\ \E c \in DOMAIN zones : c # CategoryAt(1) /\ zones[c].current # Null

C32_OtherZonesUntouched ==
    [][lastCall'.op \in Updates
         => LET active == IF state = "HOLDING" /\ state' = "FADING"
                          THEN CategoryAt(currentZoneIndex')
                          ELSE CategoryAt(currentZoneIndex)
            IN  /\ DOMAIN zones' = DOMAIN zones
                /\ DOMAIN usedImages' = DOMAIN usedImages
                /\ \A c \in DOMAIN zones :
                      c # active => /\ zones'[c] = zones[c]
                                    /\ usedImages'[c] = usedImages[c]]_vars

(* the hold of the first category has just ended: the second category       *)
(* received an incoming image while the first keeps its image and its used   *)
(* set                                                                       *)
C32_Witness ==
    /\ lastCall.op \in Updates /\ lastCall.fadeStart
    /\ state = "FADING" /\ currentZoneIndex = 1
    /\ zones[CategoryAt(1)].incoming # Null
    /\ zones[CategoryAt(0)].current # Null
    /\ usedImages[CategoryAt(0)] # {}

(* C33: with a non-empty category list, in every reachable state the cursor *)
(* is a position of the list and the cycle counter lies in 0..999 (after     *)
(* cycle 999 it is 0 again), and the set number of every status event lies   *)
(* in 1..1000.                                                               *)
C33_CursorInRange ==
    HasCategories
       => /\ currentZoneIndex \in 0..(Len(categories) - 1)
          /\ currentSet \in 0..(SetWrap - 1)
          /\ \A i \in 1..Len(lastCall.events) :
                lastCall.events[i].type = "status" => lastCall.events[i].set \in 1..SetWrap

(* the last cycle before the wrap: the status event carries the set number  *)
(* 1000                                                                      *)
C33_Witness ==
    /\ HasCategories
    /\ currentSet = SetWrap - 1
    /\ currentZoneIndex = Len(categories) - 1
    /\ \E i \in 1..Len(lastCall.events) :
          lastCall.events[i].type = "status" /\ lastCall.events[i].set = SetWrap

(* C34: one update(dt) makes at most one state transition and moves the     *)
(* cursor by at most one category, however large dt is: from FADING it       *)
(* either stays in FADING with stateTime advanced by dt or enters HOLDING    *)
(* with the cursor where it was; from HOLDING it either stays with stateTime *)
(* advanced by dt or enters FADING with the cursor one category on and the   *)
(* new fade at its beginning; and every transition restarts stateTime at 0,  *)
(* dropping the time in excess of the phase.                                 *)
C34_OneTransitionPerUpdate ==
    [][(lastCall'.op \in Updates /\ ~lastCall'.threw /\ HasCategories /\ ~transitioningOut
          /\ state \in {"FADING", "HOLDING"})
         => /\ state' \in {"FADING", "HOLDING"}
            /\ state' = state
                  => /\ stateTime' = stateTime + lastCall'.dt
                     /\ UNCHANGED <<currentZoneIndex, currentSet>>
            /\ state' # state => stateTime' = 0
            /\ (state = "FADING" /\ state' = "HOLDING")
                  => UNCHANGED <<currentZoneIndex, currentSet>>
            /\ (state = "HOLDING" /\ state' = "FADING")
                  => /\ currentZoneIndex' = (currentZoneIndex + 1) % Len(categories)
                     /\ zones'[CategoryAt(currentZoneIndex')].alpha = Zero
                     /\ zones'[CategoryAt(currentZoneIndex')].current
                           = zones[CategoryAt(currentZoneIndex')].current]_vars

(* an update whose delta covers the fade and the hold together has ended    *)
(* the fade and nothing more                                                 *)
C34_Witness ==
    /\ lastCall.op \in Updates
    /\ lastCall.dt >= fadeDuration + holdDuration
    /\ state = "HOLDING" /\ stateTime = 0
    /\ HasCategories /\ zones[CategoryAt(currentZoneIndex)].current # Null

(* C35: no update() turns a present current image of a zone into an absent  *)
(* one: a zone that shows an image keeps showing one until reset() or        *)
(* setImages().                                                              *)
C35_CurrentNeverLost ==
    [][lastCall'.op \in Updates
         => \A c \in DOMAIN zones :
               zones[c].current # Null => zones'[c].current # Null]_vars

(* C36: within a FADING phase the alpha of the active zone never decreases  *)
(* from one update() to the next, whatever happens to fadeDuration and to    *)
(* the reduced-motion preference in between.                                 *)
C36_ZoneAlphaMonotone ==
    [][(lastCall'.op \in Updates /\ state = "FADING" /\ state' = "FADING"
          /\ CategoryAt(currentZoneIndex) # Null)
         => RatLeq(zones[CategoryAt(currentZoneIndex)].alpha,
                   zones'[CategoryAt(currentZoneIndex)].alpha)]_vars

(* C37: while a fade-out is in progress an update() changes the transition  *)
(* alpha, flag and time only: state, stateTime, cursor, set counter, used    *)
(* sets and zones stay as they are; during the fade-in that follows, the     *)
(* zone cycle proceeds as without a transition: the update adds its delta to *)
(* stateTime and ends the fade or the hold exactly when its duration is      *)
(* reached.                                                                  *)
C37_CycleSuspendedInFadeOut ==
    [][lastCall'.op \in Updates
         => /\ transitioningOut
                 => UNCHANGED <<state, stateTime, currentZoneIndex, currentSet, usedImages,
                                zones, picks>>
            /\ (/\ ~transitioningOut /\ RatLess(transitionAlpha, One)
                /\ HasCategories /\ state \in {"FADING", "HOLDING"})
                 => LET t == stateTime + lastCall'.dt
                        due == IF state = "FADING" THEN t >= EffectiveFade
                               ELSE t >= holdDuration
                    IN  /\ (state' # state) <=> due
                        /\ stateTime' = IF due THEN 0 ELSE t]_vars

(* an update made during a fade-out that began in mid-fade: the time of     *)
(* the fade-out, had it counted, would have ended the zone fade              *)
C37_Witness ==
    /\ transitioningOut /\ lastCall.op \in Updates
    /\ state = "FADING" /\ stateTime > 0 /\ outTime > 0
    /\ stateTime + outTime >= fadeDuration
    /\ RatLess(Zero, transitionAlpha) /\ RatLess(transitionAlpha, One)

(* every loadStyle() call has run to its end *)
AllLoaded == loads # <<>> /\ \A i \in 1..Len(loads) : loads[i].pc = "done"

(* C38: once every loadStyle() call has finished, however the calls          *)
(* overlapped, the engine is running in FADING or HOLDING with the image     *)
(* pool of the style selected last.                                          *)
C38_LastStyleRuns ==
    AllLoaded => /\ running
                 /\ state \in {"FADING", "HOLDING"}
                 /\ imagesByColor = StylePool(currentStyle).imgs
                 /\ categories = StylePool(currentStyle).cats

(* C39: while the engine is running it holds no image handle that           *)
(* imageLoader.clear() has closed: neither the background, nor the frame,    *)
(* nor the current or incoming image of a zone, so that no frame draws a     *)
(* closed bitmap.                                                            *)
C39_NoClosedHandle == running => Held \cap closed = {}

(* preloadAll of call i has resolved *)
Resolved(i) == Len(loads) >= i /\ loads[i].pc \in {"preloaded", "done"}

(* the loaded counts handed to onProgress never decrease nor exceed total,  *)
(* and the promise is not rejected                                           *)
ProgressSound(job) ==
    /\ job.pc # "rejected"
    /\ \A k \in 1..Len(job.progress) : job.progress[k] <= job.total
    /\ \A k \in 1..(Len(job.progress) - 1) : job.progress[k] <= job.progress[k + 1]

(* C40: every preloadAll(sources, onProgress) resolves and none rejects,     *)
(* whichever loads fail; the loaded counts passed to onProgress never        *)
(* decrease and never exceed total = sources.length, and once the call has   *)
(* resolved for a non-empty list the last onProgress reported loaded = total.*)
C40_PreloadResolves ==
    /\ [](\A i \in 1..Len(loads) :
            /\ ProgressSound(loads[i])
            /\ (Resolved(i) /\ loads[i].total > 0)
                  => /\ loads[i].progress # <<>>
                     /\ loads[i].progress[Len(loads[i].progress)] = loads[i].total)
    /\ <>[](\A i \in 1..Len(loads) : Resolved(i))

(* a call over the sources p1 and g1 loaded both; a later call found them   *)
(* cached, reported 2 of 3 at once, and resolved with 3 of 3 although the   *)
(* load of its third source failed                                          *)
C40_Witness ==
    /\ Len(loads) = 2
    /\ Resolved(1) /\ loads[1].total = 2 /\ loads[1].progress = <<1, 2>>
    /\ Resolved(2) /\ loads[2].total = 3 /\ loads[2].progress = <<2, 3>>
    /\ loads[2].results = {"p1", "g1"}

====
